---- MODULE Spec2Model ----
(***************************************************************************)
(* Model of the OpenAgri reporting service: the report-generation          *)
(* invocations (ingestion, parsing, assembly, artifact write) of the       *)
(* irrigation / fertilization / pest-control and animal reports, and the   *)
(* aggregation functions they use.                                         *)
(*                                                                         *)
(* Conventions.  A Python Optional value is a sequence of length <= 1:     *)
(* None is <<>> and a present value x is <<x>>.  A datetime / date is a    *)
(* natural number (a day).  A formatted date is a record carrying the      *)
(* format string, so that two formats of the same day differ.  A raised    *)
(* exception is the field "raised" of a result record: "" means that       *)
(* nothing was raised.                                                     *)
(***************************************************************************)
EXTENDS Integers, Sequences, FiniteSets, TLC

(***************************************************************************)
(* Bounds of the model.                                                    *)
(***************************************************************************)
MaxOps == 2
MaxDoses == 3
MaxDose == 3
MaxPests == 2

(***************************************************************************)
(* Optional values and Python truthiness.                                  *)
(***************************************************************************)
None == <<>>

Some(x) == <<x>>

IsNone(o) == o = <<>>

Val(o) == o[1]

Range(s) == {s[i] : i \in 1..Len(s)}

SeqsUpTo(S, n) == UNION {[1..k -> S] : k \in 0..n}

(***************************************************************************)
(* Dates.  strftime keeps the day and records the format it was given.     *)
(***************************************************************************)
TODAY == 9

Dates == {1, 2}

strftime(d, fmt) == [fmt |-> fmt, day |-> d]

(***************************************************************************)
(* utils/json_handler.py: make_get_request.  The remote answer is either   *)
(* an error (connection error, non-2xx status, body that is not JSON) or   *)
(* a JSON body; every error is logged and turned into None.                *)
(***************************************************************************)
make_get_request(response) ==
    IF response.status = "error" THEN None ELSE Some(response.body)

(***************************************************************************)
(* utils/utils.py: decode_dates_filters.  params is the set of             *)
(* <<key, value>> pairs of the query-parameter dict.                       *)
(***************************************************************************)
SetKey(params, k, v) == {p \in params : p[1] # k} \cup {<<k, v>>}

\* (variant: an absent to-date is sent as today)
decode_dates_filters_DefaultToDate(params, from_date, to_date) ==
    LET p1 == IF ~IsNone(from_date)
              THEN SetKey(params, "fromDate", strftime(Val(from_date), "%Y-%m-%d"))
              ELSE params
    IN  SetKey(p1, "toDate", strftime(IF ~IsNone(to_date) THEN Val(to_date) ELSE TODAY,
                                      "%Y-%m-%d"))

decode_dates_filters(params, from_date, to_date) ==
    LET p1 == IF ~IsNone(from_date)
              THEN SetKey(params, "fromDate", strftime(Val(from_date), "%Y-%m-%d"))
              ELSE params
    IN  IF ~IsNone(to_date)
        THEN SetKey(p1, "toDate", strftime(Val(to_date), "%Y-%m-%d"))
        ELSE p1

(***************************************************************************)
(* utils/utils.py: FarmInfo, ParcelInfo and get_parcel_info.               *)
(*                                                                         *)
(* The remote world a parcel lookup sees is a record env:                  *)
(*   gatekeeper  settings.REPORTING_USING_GATEKEEPER                       *)
(*   found       the parcel fetch returned a payload                       *)
(*   area        the payload's "area" (square metres)                      *)
(*   farmRef     "missing": no "farm" key; "noid": farm without "@id";     *)
(*               "id": farm with an id                                     *)
(*   farmFound   the farm fetch returned a payload                         *)
(*   geocodeOk   the payload has a "location" and the reverse-geocoding    *)
(*               lookup succeeded                                          *)
(***************************************************************************)
DefaultFarm ==
    [description |-> "", administrator |-> "", vatID |-> "", name |-> "",
     municipality |-> "", contactPerson |-> ""]

ResolvedFarm ==
    [description |-> "farm-description", administrator |-> "farm-admin",
     vatID |-> "farm-vat", name |-> "farm-name",
     municipality |-> "farm-municipality", contactPerson |-> "first last"]

DefaultParcel == [address |-> "", area |-> 0]

ParcelResult(raised, parcel, farm, identifier) ==
    [raised |-> raised, parcel_data |-> parcel, farm |-> farm,
     identifier |-> identifier]

get_parcel_info(env) ==
    IF ~env.gatekeeper THEN ParcelResult("", DefaultParcel, DefaultFarm, "")
    ELSE IF ~env.found THEN ParcelResult("", DefaultParcel, DefaultFarm, "")
    ELSE IF env.farmRef = "missing"
         \* farm_parcel_info.get("farm") is None: None.get raises
         THEN ParcelResult("AttributeError", DefaultParcel, DefaultFarm, "")
    ELSE IF env.farmRef = "id" /\ ~env.farmFound
         \* farm_info is None: farm_info.get raises
         THEN ParcelResult("AttributeError", DefaultParcel, DefaultFarm, "")
    ELSE LET farm == IF env.farmRef = "id" THEN ResolvedFarm ELSE DefaultFarm
             address == IF env.geocodeOk
                        THEN "Country | City | Postcode" ELSE ""
         IN  ParcelResult("", [address |-> address, area |-> env.area],
                          farm, "parcel-identifier")

(***************************************************************************)
(* Stable ascending sort of seq by the integer keys (keys[i] is the key of *)
(* seq[i]): list.sort(key=...) of Python, which is stable.                 *)
(***************************************************************************)
Rank(keys, i) ==
    1 + Cardinality({j \in 1..Len(keys) :
                        keys[j] < keys[i] \/ (keys[j] = keys[i] /\ j < i)})

SortByKey(seq, keys) ==
    [r \in 1..Len(seq) |-> seq[CHOOSE i \in 1..Len(seq) : Rank(keys, i) = r]]

(***************************************************************************)
(* schemas/irrigation.py.  A raw record is what the remote service or the  *)
(* uploaded graph carries; "valid" says whether it has the fields the      *)
(* schema requires (@type, @id, hasAppliedAmount with unit and             *)
(* numericValue).  model_validate keeps the recognised fields of a valid   *)
(* record and raises on an invalid one.                                    *)
(***************************************************************************)
QuantityValue(unit, numericValue) == [unit |-> unit, numericValue |-> numericValue]

RawRecord(valid, start, operatedOn, amount, pesticide) ==
    [valid |-> valid, hasStartDatetime |-> start, hasEndDatetime |-> None,
     operatedOn |-> operatedOn, hasAppliedAmount |-> amount,
     usesIrrigationSystem |-> Some("drip"), usesFertilizer |-> None,
     hasApplicationMethod |-> None, usesPesticide |-> pesticide]

model_validate(item, cls) ==
    [type |-> cls, hasStartDatetime |-> item.hasStartDatetime,
     hasEndDatetime |-> item.hasEndDatetime, operatedOn |-> item.operatedOn,
     hasAppliedAmount |-> item.hasAppliedAmount,
     usesIrrigationSystem |-> IF cls = "CropProtectionOperation" THEN None
                              ELSE item.usesIrrigationSystem,
     usesFertilizer |-> IF cls = "FertilizationOperation"
                        THEN item.usesFertilizer ELSE None,
     hasApplicationMethod |-> IF cls = "FertilizationOperation"
                              THEN item.hasApplicationMethod ELSE None,
     usesPesticide |-> IF cls = "CropProtectionOperation"
                       THEN item.usesPesticide ELSE None]

(***************************************************************************)
(* utils/generate_aggregation_data.py.                                     *)
(*                                                                         *)
(* pest_env maps a pesticide id to the answer of the pesticide endpoint:   *)
(* "error" (get_pesticide returns None), "noname" (a payload without       *)
(* hasCommercialName) or the commercial name.                              *)
(***************************************************************************)
get_pest_from_obj(pt, pest_env) ==
    IF IsNone(pt.usesPesticide) THEN Some("")
    ELSE LET answer == pest_env[Val(pt.usesPesticide)]
         IN  IF answer = "error" THEN Some("")
             ELSE IF answer = "noname" THEN None   \* pest.get(...) is None
             ELSE Some(answer)

PestRows(pests, pest_env) ==
    [i \in 1..Len(pests) |->
        [Dose |-> IF ~IsNone(pests[i].hasAppliedAmount)
                  THEN Val(pests[i].hasAppliedAmount).numericValue ELSE 0,
         Pesticide |-> get_pest_from_obj(pests[i], pest_env),
         Unit |-> IF ~IsNone(pests[i].hasAppliedAmount)
                  THEN Val(pests[i].hasAppliedAmount).unit ELSE ""]]

RECURSIVE SumDose(_)
SumDose(rows) ==
    IF rows = <<>> THEN 0 ELSE rows[1].Dose + SumDose(Tail(rows))

SelectRows(rows, key) ==
    LET Idx == {i \in 1..Len(rows) :
                   rows[i].Pesticide = key[1] /\ rows[i].Unit = key[2]}
        RECURSIVE Build(_)
        Build(i) == IF i > Len(rows) THEN <<>>
                    ELSE IF i \in Idx THEN <<rows[i]>> \o Build(i + 1)
                    ELSE Build(i + 1)
    IN  Build(1)

\* df.groupby(["Pesticide", "Unit"])["Dose"].sum().reset_index(): one row
\* per key pair; pandas leaves out the rows whose key is missing (a None
\* pesticide name), dropna being True by default.  The result is the set of
\* its rows (pandas orders them by key).
GroupKeys(rows) ==
    {<<rows[i].Pesticide, rows[i].Unit>> : i \in
        {j \in 1..Len(rows) : ~IsNone(rows[j].Pesticide)}}

GroupSum(rows, key) == SumDose(SelectRows(rows, key))

\* A frame built from an empty list has no columns: groupby raises KeyError.
pesticides_aggregation(pests, pest_env) ==
    LET df == PestRows(pests, pest_env)
    IN  IF df = <<>> THEN [raised |-> "KeyError", sums |-> {}]
        ELSE [raised |-> "",
              sums |-> {[Pesticide |-> Val(k[1]), Unit |-> k[2],
                         Dose |-> GroupSum(df, k)] : k \in GroupKeys(df)}]

\* prepare_df_for_calculations that loses the first operation.
prepare_df_for_calculations_DropsFirst(irrigation_reports) ==
    [i \in 1..(Len(irrigation_reports) - 1) |->
        [StartedDate |-> irrigation_reports[i + 1].hasStartDatetime,
         Dose |-> Val(irrigation_reports[i + 1].hasAppliedAmount).numericValue,
         TotalVolume |-> None]]

\* A data frame is the sequence of its rows; a column that was not added
\* yet is None in every row.
prepare_df_for_calculations(irrigation_reports) ==
    [i \in 1..Len(irrigation_reports) |->
        [StartedDate |-> irrigation_reports[i].hasStartDatetime,
         Dose |-> IF ~IsNone(irrigation_reports[i].hasAppliedAmount)
                  THEN Val(irrigation_reports[i].hasAppliedAmount).numericValue
                  ELSE 0,
         TotalVolume |-> None]]

\* NaT sorts last (na_position="last").
DateKey(row) == IF IsNone(row.StartedDate) THEN TODAY + 1 ELSE Val(row.StartedDate)

\* Returns the frame with its new "Total Volume" column (the caller's frame
\* is changed in place) and the points of the plotted line.  A frame built
\* from an empty list has no columns: df["Started Date"] raises KeyError.
generate_total_volume_graph(df, parcel_area) ==
    IF df = <<>> THEN [raised |-> "KeyError", df |-> df, image |-> <<>>]
    ELSE LET df2 == [i \in 1..Len(df) |->
                        [df[i] EXCEPT !.TotalVolume = Some(df[i].Dose * parcel_area)]]
             sorted == SortByKey(df2, [i \in 1..Len(df2) |-> DateKey(df2[i])])
         IN  [raised |-> "", df |-> df2,
              image |-> [i \in 1..Len(sorted) |->
                            [x |-> sorted[i].StartedDate, y |-> Val(sorted[i].TotalVolume)]]]

generate_amount_per_hectare(df) ==
    [i \in 1..Len(df) |-> [x |-> df[i].StartedDate, y |-> df[i].Dose]]

RECURSIVE ColSum(_)
ColSum(col) == IF col = <<>> THEN 0 ELSE col[1] + ColSum(Tail(col))

RECURSIVE ColMax(_)
ColMax(col) ==
    IF Len(col) = 1 THEN col[1]
    ELSE LET m == ColMax(Tail(col)) IN IF col[1] > m THEN col[1] ELSE m

RECURSIVE ColMin(_)
ColMin(col) ==
    IF Len(col) = 1 THEN col[1]
    ELSE LET m == ColMin(Tail(col)) IN IF col[1] < m THEN col[1] ELSE m

\* The mean is the fraction num / den.
ColMean(col) == [num |-> ColSum(col), den |-> Len(col)]

DoseCol(df) == [i \in 1..Len(df) |-> df[i].Dose]

VolumeCol(df) == [i \in 1..Len(df) |-> Val(df[i].TotalVolume)]

generate_aggregation_table_data(df) ==
    [sum |-> <<ColSum(DoseCol(df)), ColSum(VolumeCol(df))>>,
     mean |-> <<ColMean(DoseCol(df)), ColMean(VolumeCol(df))>>,
     max |-> <<ColMax(DoseCol(df)), ColMax(VolumeCol(df))>>,
     min |-> <<ColMin(DoseCol(df)), ColMin(VolumeCol(df))>>]

(***************************************************************************)
(* utils/irrig_fert_pest_report.py and utils/irrigation_report.py: the     *)
(* parsers.  Either every item validates or the call raises                *)
(* HTTPException(400).                                                     *)
(***************************************************************************)
ParseResult(raised, ops) == [raised |-> raised, operations |-> ops]

\* parse_irrig_fert_operations with the last two classes confused: what is
\* not an irrigation is validated as a fertilization.
parse_irrig_fert_operations_TwoClasses(data, irrigation_flag, fertilization_flag) ==
    LET cls == IF irrigation_flag THEN "IrrigationOperation"
               ELSE "FertilizationOperation"
    IN  IF \E i \in 1..Len(data) : ~data[i].valid
        THEN ParseResult("HTTPException-400-validation", <<>>)
        ELSE ParseResult("", [i \in 1..Len(data) |-> model_validate(data[i], cls)])

parse_irrig_fert_operations(data, irrigation_flag, fertilization_flag) ==
    LET cls == IF irrigation_flag THEN "IrrigationOperation"
               ELSE IF fertilization_flag THEN "FertilizationOperation"
               ELSE "CropProtectionOperation"
    IN  IF \E i \in 1..Len(data) : ~data[i].valid
        THEN ParseResult("HTTPException-400-validation", <<>>)
        ELSE ParseResult("", [i \in 1..Len(data) |-> model_validate(data[i], cls)])

parse_irrigation_operations(data) ==
    IF \E i \in 1..Len(data) : ~data[i].valid
    THEN ParseResult("HTTPException-400-validation", <<>>)
    ELSE ParseResult("", [i \in 1..Len(data) |->
                             model_validate(data[i], "IrrigationOperation")])

(***************************************************************************)
(* The assembled document: the sections written to the pdf object, in the  *)
(* order of the code.  A section that was not written is None.             *)
(***************************************************************************)
EmptyText == [fmt |-> "", day |-> 0]

FormatOpt(d, fmt) == IF IsNone(d) THEN EmptyText ELSE strftime(Val(d), fmt)

Cell(col, val) == [col |-> col, val |-> val]

NoPdf ==
    [title |-> "", period |-> <<>>, parcel |-> None,
     detail |-> None, table |-> None, graphs |-> None, aggregates |-> None,
     pesticides |-> None]

PdfResult(raised, at, pdf, ops) ==
    [raised |-> raised, at |-> at, pdf |-> pdf, operations |-> ops]

\* The fields of the single-operation section.
DetailSection(op, address, identifier, farm) ==
    [start_end |-> <<FormatOpt(op.hasStartDatetime, "%d/%m/%Y"),
                     FormatOpt(op.hasEndDatetime, "%d/%m/%Y")>>,
     address |-> address, identifier |-> identifier,
     farm_local |-> <<farm.name, farm.municipality>>,
     administrator |-> farm.administrator,
     contactPerson |-> farm.contactPerson,
     vatID |-> farm.vatID, description |-> farm.description,
     value |-> <<Val(op.hasAppliedAmount).numericValue,
                 Val(op.hasAppliedAmount).unit>>]

\* SortOperations without the sort: the list is left as it was fetched.
SortOperations_Unsorted(operations) == [raised |-> "", operations |-> operations]

\* operations.sort(key=lambda x: x.hasStartDatetime): comparing None with a
\* datetime (or with None) raises TypeError.
SortOperations(operations) ==
    IF \E i \in 1..Len(operations) : IsNone(operations[i].hasStartDatetime)
    THEN [raised |-> "TypeError", operations |-> operations]
    ELSE [raised |-> "",
          operations |-> SortByKey(operations,
              [i \in 1..Len(operations) |-> Val(operations[i].hasStartDatetime)])]

TableHeader(parcel_defined, kind_columns) ==
    <<"Start - End">>
    \o (IF ~parcel_defined THEN <<"Parcel", "Parcel Identifier", "Farm">> ELSE <<>>)
    \o <<"Dose", "Unit">> \o kind_columns

\* The per-row parcel cells, written when no parcel was given for the whole
\* report.  address_of(r) is what the module keeps of the lookup result.
RowParcelCells(op, env, whole_result) ==
    IF IsNone(op.operatedOn)
    \* farm = "" and then farm.name: str has no attribute "name"
    THEN [raised |-> "AttributeError", cells |-> <<>>]
    ELSE LET r == get_parcel_info(env)
         IN  IF r.raised # "" THEN [raised |-> r.raised, cells |-> <<>>]
             ELSE [raised |-> "",
                   cells |-> <<Cell("Parcel", IF whole_result THEN r.parcel_data
                                              ELSE r.parcel_data.address),
                               Cell("Parcel Identifier", r.identifier),
                               Cell("Farm", <<r.farm.name, r.farm.municipality>>)>>]

KindCells(op, irrigation_flag, fertilization_flag, pest_env) ==
    IF irrigation_flag
    THEN <<Cell("Irrigation System", op.usesIrrigationSystem)>>
    ELSE IF fertilization_flag
    THEN <<Cell("Fertilizer", IF ~IsNone(op.usesFertilizer) THEN "Yes" ELSE "No"),
           Cell("Application Method", op.hasApplicationMethod)>>
    ELSE <<Cell("Pesticide", IF ~IsNone(op.usesPesticide)
                             THEN get_pest_from_obj(op, pest_env) ELSE Some(""))>>

TableRow(op, parcel_defined, irrigation_flag, fertilization_flag, env, pest_env, whole_result) ==
    LET pc_ == IF parcel_defined THEN [raised |-> "", cells |-> <<>>]
               ELSE RowParcelCells(op, env, whole_result)
    IN  [raised |-> pc_.raised,
         cells |-> <<Cell("Start - End",
                          <<FormatOpt(op.hasStartDatetime, "%d/%m/%Y"),
                            FormatOpt(op.hasEndDatetime, "%d/%m/%Y")>>)>>
                   \o pc_.cells
                   \o <<Cell("Dose", Val(op.hasAppliedAmount).numericValue),
                        Cell("Unit", Val(op.hasAppliedAmount).unit)>>
                   \o KindCells(op, irrigation_flag, fertilization_flag, pest_env)]

KindColumns(irrigation_flag, fertilization_flag) ==
    IF irrigation_flag THEN <<"Irrigation System">>
    ELSE IF fertilization_flag THEN <<"Fertilizer", "Application Method">>
    ELSE <<"Pesticide">>

\* The table of the "more than one operation" branch: the optional sort,
\* the header and one row per operation.
TableSection(operations, data_used, parcel_defined, irrigation_flag, fertilization_flag, env, pest_env, whole_result) ==
    LET sorted == IF ~data_used THEN SortOperations(operations)
                  ELSE [raised |-> "", operations |-> operations]
        ops == sorted.operations
        rows == [i \in 1..Len(ops) |->
                    TableRow(ops[i], parcel_defined, irrigation_flag,
                             fertilization_flag, env, pest_env, whole_result)]
        bad == {i \in 1..Len(ops) : rows[i].raised # ""}
    IN  IF sorted.raised # ""
        THEN [raised |-> sorted.raised, operations |-> operations, table |-> None]
        ELSE IF bad # {}
        THEN [raised |-> rows[CHOOSE i \in bad : \A j \in bad : i <= j].raised,
              operations |-> ops, table |-> None]
        ELSE [raised |-> "", operations |-> ops,
              table |-> Some([header |-> TableHeader(parcel_defined,
                                  KindColumns(irrigation_flag, fertilization_flag)),
                              rows |-> [i \in 1..Len(ops) |-> rows[i].cells]])]

\* Lines 136 and 230 (irrigation_report.py lines 145 and 235): the branch
\* taken depends on len(operations) alone.
IsSingle(operations) == Len(operations) = 1

\* IsMultiple with the threshold one too high.
IsMultiple_MoreThanTwo(operations) == Len(operations) > 2

IsMultiple(operations) == Len(operations) > 1

(***************************************************************************)
(* utils.display_pdf_parcel_details writes the parcel and farm details of  *)
(* the report-wide parcel and returns its parcel data.  It resolves the    *)
(* parcel as the Context Resolver is specified: defaults when the lookup   *)
(* is disabled, fails or finds nothing, and no error is propagated.  The   *)
(* satellite image that lines 124-133 add for a parcel with coordinates    *)
(* is not part of the model.                                               *)
(***************************************************************************)
display_pdf_parcel_details(env) ==
    IF ~env.gatekeeper \/ ~env.found
    THEN [address |-> "", area |-> 0]
    ELSE [address |-> IF env.geocodeOk THEN "Country | City | Postcode" ELSE "",
          area |-> env.area]

(***************************************************************************)
(* utils/irrig_fert_pest_report.py: create_pdf_from_operations.            *)
(***************************************************************************)
Title(irrigation_flag, fertilization_flag) ==
    IF irrigation_flag THEN "Irrigation"
    ELSE IF fertilization_flag THEN "Fertilization" ELSE "Pesticide"

\* Lines 102-120: the reporting period line.
ReportingPeriod(from_date, to_date) ==
    <<IF ~IsNone(from_date) THEN strftime(Val(from_date), "%Y-%m-%d")
      ELSE strftime(TODAY, "%d/%m/%Y"),
      IF ~IsNone(to_date) THEN strftime(Val(to_date), "%Y-%m-%d") ELSE EmptyText>>

\* Lines 136-228: the branch len(operations) == 1.
SingleSection(op, parcel_defined, env) ==
    IF parcel_defined
    \* address and farm are still None and identifier was never assigned
    THEN [raised |-> "UnboundLocalError", detail |-> None]
    ELSE IF IsNone(op.operatedOn)
    \* farm is still None: farm.name raises
    THEN [raised |-> "AttributeError", detail |-> None]
    ELSE LET r == get_parcel_info(env)
         IN  IF r.raised # "" THEN [raised |-> r.raised, detail |-> None]
             ELSE [raised |-> "",
                   detail |-> Some(DetailSection(op, r.parcel_data.address,
                                                 r.identifier, r.farm))]

\* Lines 320-324.
AreaParcel(area) == IF area > 0 THEN area \div 10000 ELSE 0

\* SummaryGate without the test of parcel_defined.
SummaryGate_AnyParcel(operations, parcel_defined) == operations # <<>>

\* SummaryGate without the test of operations.
SummaryGate_AnySize(operations, parcel_defined) == parcel_defined

\* Line 317: "if operations and parcel_defined".
SummaryGate(operations, parcel_defined) == operations # <<>> /\ parcel_defined

\* Lines 317-382: the graphs and the aggregate table of an irrigation
\* report, or the per-pesticide totals of a pest-control report.
SummarySections(operations, parcel_defined, parcel_data, irrigation_flag, pest_env) ==
    IF ~SummaryGate(operations, parcel_defined)
    THEN [raised |-> "", graphs |-> None, aggregates |-> None, pesticides |-> None]
    ELSE IF irrigation_flag
    THEN LET area_parcel == AreaParcel(parcel_data.area)
             df_for_calc == prepare_df_for_calculations(operations)
             tv == generate_total_volume_graph(df_for_calc, area_parcel)
         IN  IF tv.raised # ""
             THEN [raised |-> tv.raised, graphs |-> None, aggregates |-> None,
                   pesticides |-> None]
             ELSE [raised |-> "",
                   graphs |-> Some([total_volume |-> tv.image,
                                    amount_per_hectare |->
                                        generate_amount_per_hectare(tv.df)]),
                   aggregates |-> Some(generate_aggregation_table_data(tv.df)),
                   pesticides |-> None]
    ELSE IF operations = <<>>
    \* operations[0] of an empty list
    THEN [raised |-> "IndexError", graphs |-> None, aggregates |-> None,
          pesticides |-> None]
    ELSE IF operations[1].type = "CropProtectionOperation"
    THEN LET pesticide_sums == pesticides_aggregation(operations, pest_env)
         IN  [raised |-> pesticide_sums.raised, graphs |-> None, aggregates |-> None,
              pesticides |-> IF pesticide_sums.raised = ""
                             THEN Some(pesticide_sums.sums) ELSE None]
    ELSE [raised |-> "", graphs |-> None, aggregates |-> None, pesticides |-> None]

create_pdf_from_operations(operations, data_used, parcel_id, from_date, to_date, irrigation_flag, fertilization_flag, env, pest_env) ==
    LET parcel_defined == ~IsNone(parcel_id)
        parcel_data == display_pdf_parcel_details(env)
        head == [NoPdf EXCEPT
                    !.title = Title(irrigation_flag, fertilization_flag),
                    !.period = ReportingPeriod(from_date, to_date),
                    !.parcel = IF parcel_defined THEN Some(parcel_data) ELSE None]
        single == IF IsSingle(operations)
                  THEN SingleSection(operations[1], parcel_defined, env)
                  ELSE [raised |-> "", detail |-> None]
        table == IF IsMultiple(operations)
                 THEN TableSection(operations, data_used, parcel_defined,
                                   irrigation_flag, fertilization_flag, env,
                                   pest_env, FALSE)
                 ELSE [raised |-> "", operations |-> operations, table |-> None]
        summary == SummarySections(table.operations, parcel_defined, parcel_data,
                                   irrigation_flag, pest_env)
    IN  IF single.raised # ""
        THEN PdfResult(single.raised, "single", NoPdf, operations)
        ELSE IF table.raised # ""
        THEN PdfResult(table.raised, "table", NoPdf, table.operations)
        ELSE IF summary.raised # ""
        THEN PdfResult(summary.raised, "summary", NoPdf, table.operations)
        ELSE PdfResult("", "", [head EXCEPT !.detail = single.detail,
                                            !.table = table.table,
                                            !.graphs = summary.graphs,
                                            !.aggregates = summary.aggregates,
                                            !.pesticides = summary.pesticides],
                       table.operations)

(***************************************************************************)
(* utils/irrigation_report.py: create_pdf_from_operations, the assembler   *)
(* wired to the irrigation endpoint.                                       *)
(***************************************************************************)
\* Lines 69-82: to_date_local is formatted from from_date.
irrigation_report_ReportingPeriod(from_date, to_date) ==
    IF ~IsNone(to_date) /\ IsNone(from_date)
    THEN [raised |-> "AttributeError", period |-> <<>>]
    ELSE [raised |-> "",
          period |-> <<IF ~IsNone(from_date)
                       THEN strftime(Val(from_date), "%Y-%m-%d")
                       ELSE strftime(TODAY, "%d/%m/%Y"),
                       IF ~IsNone(to_date)
                       THEN strftime(Val(from_date), "%Y-%m-%d") ELSE EmptyText>>]

\* Lines 145-233: the branch len(operations) == 1.  whole is the result of
\* the report-wide lookup of lines 84-143.
irrigation_report_SingleSection(op, parcel_defined, whole, env) ==
    IF parcel_defined
    THEN [raised |-> "",
          detail |-> Some(DetailSection(op, whole.parcel_data, whole.identifier,
                                        whole.farm))]
    ELSE IF IsNone(op.operatedOn)
    THEN [raised |-> "AttributeError", detail |-> None]
    ELSE LET r == get_parcel_info(env)
         IN  IF r.raised # "" THEN [raised |-> r.raised, detail |-> None]
             ELSE [raised |-> "",
                   detail |-> Some(DetailSection(op, r.parcel_data,
                                                 r.identifier, r.farm))]

irrigation_report_create_pdf_from_operations(operations, data_used, parcel_id, from_date, to_date, env) ==
    LET parcel_defined == ~IsNone(parcel_id)
        period == irrigation_report_ReportingPeriod(from_date, to_date)
        whole == get_parcel_info(env)
        head == [NoPdf EXCEPT
                    !.title = "Irrigation",
                    !.period = period.period,
                    !.parcel = IF parcel_defined
                               THEN Some([address |-> whole.parcel_data,
                                          identifier |-> whole.identifier,
                                          farm |-> whole.farm])
                               ELSE None]
        single == IF IsSingle(operations)
                  THEN irrigation_report_SingleSection(operations[1],
                                                       parcel_defined, whole, env)
                  ELSE [raised |-> "", detail |-> None]
        table == IF IsMultiple(operations)
                 THEN TableSection(operations, data_used, parcel_defined,
                                   TRUE, FALSE, env, [p \in {} |-> ""], TRUE)
                 ELSE [raised |-> "", operations |-> operations, table |-> None]
    IN  IF period.raised # ""
        THEN PdfResult(period.raised, "period", NoPdf, operations)
        ELSE IF parcel_defined /\ whole.raised # ""
        THEN PdfResult(whole.raised, "parcel", NoPdf, operations)
        ELSE IF single.raised # ""
        THEN PdfResult(single.raised, "single", NoPdf, operations)
        ELSE IF table.raised # ""
        THEN PdfResult(table.raised, "table", NoPdf, table.operations)
        ELSE PdfResult("", "", [head EXCEPT !.detail = single.detail,
                                            !.table = table.table],
                       table.operations)

(***************************************************************************)
(* utils/animals_report.py.  Of an animal record the model keeps the       *)
(* creation date and the parcel reference.                                 *)
(***************************************************************************)
RawAnimal(valid, dateCreated, hasAgriParcel) ==
    [valid |-> valid, dateCreated |-> dateCreated, hasAgriParcel |-> hasAgriParcel]

\* Returns None (not a list) when a record does not validate.
parse_animal_data(data) ==
    IF \E i \in 1..Len(data) : ~data[i].valid
    THEN None
    ELSE Some([i \in 1..Len(data) |->
                  [dateCreated |-> data[i].dateCreated,
                   hasAgriParcel |-> data[i].hasAgriParcel]])

AnimalHeader ==
    <<"Date", "Animal", "Description", "Parcel", "Parcel Identifier", "Species",
      "Sex", "Birthdate", "Invalidated", "Group Member">>

\* Lines 66-156: the branch len(animals) == 1.
AnimalDetail(an, env) ==
    IF IsNone(an.hasAgriParcel)
    \* farm = "" and then farm.name
    THEN [raised |-> "AttributeError", detail |-> None]
    ELSE LET r == get_parcel_info(env)
         IN  IF r.raised # "" THEN [raised |-> r.raised, detail |-> None]
             ELSE [raised |-> "",
                   detail |-> Some([created |-> strftime(an.dateCreated, "%d/%m/%Y"),
                                    address |-> r.parcel_data,
                                    identifier |-> r.identifier,
                                    farm_local |-> <<r.farm.name, r.farm.municipality>>])]

\* Lines 176-205: one row of the table.
AnimalRow(animal, env) ==
    LET r == get_parcel_info(env)
        looked == ~IsNone(animal.hasAgriParcel)
    IN  [raised |-> IF looked THEN r.raised ELSE "",
         cells |-> <<Cell("Date", strftime(animal.dateCreated, "%d/%m/%Y")),
                     Cell("Animal", "name"),
                     Cell("Description", "description"),
                     Cell("Parcel", IF looked THEN Some(r.parcel_data) ELSE None),
                     Cell("Parcel Identifier", IF looked THEN r.identifier ELSE ""),
                     Cell("Species", "species"),
                     Cell("Sex", "sex"),
                     Cell("Birthdate", "birthdate"),
                     Cell("Invalidated", "N/A"),
                     Cell("Group Member", "N/A")>>]

\* animals is the Optional list handed over by process_animal_data.
create_pdf_from_animals(animals, env) ==
    IF IsNone(animals)
    \* len(None)
    THEN PdfResult("TypeError", "single", NoPdf, <<>>)
    ELSE LET list == Val(animals)
             single == IF Len(list) = 1 THEN AnimalDetail(list[1], env)
                       ELSE [raised |-> "", detail |-> None]
             sorted == SortByKey(list, [i \in 1..Len(list) |-> list[i].dateCreated])
             rows == [i \in 1..Len(sorted) |-> AnimalRow(sorted[i], env)]
             bad == {i \in 1..Len(sorted) : rows[i].raised # ""}
         IN  IF single.raised # ""
             THEN PdfResult(single.raised, "single", NoPdf, list)
             ELSE IF Len(list) > 1 /\ bad # {}
             THEN PdfResult(rows[CHOOSE i \in bad : TRUE].raised, "table", NoPdf, sorted)
             ELSE IF Len(list) > 1
             THEN PdfResult("", "",
                            [NoPdf EXCEPT !.title = "Animal",
                                          !.table = Some([header |-> AnimalHeader,
                                              rows |-> [i \in 1..Len(sorted) |->
                                                           rows[i].cells]])],
                            sorted)
             ELSE PdfResult("", "", [NoPdf EXCEPT !.title = "Animal",
                                                  !.detail = single.detail], list)

(***************************************************************************)
(* The inputs of the model.                                                *)
(***************************************************************************)
ParcelIds == {"P1"}

PestIds == {"pest-1"}

Areas == {0, 20000}

InvalidRecord == RawRecord(FALSE, None, None, None, None)

RawRecords ==
    {InvalidRecord} \cup
    {RawRecord(TRUE, s, o, Some(QuantityValue("m3", 12)), Some("pest-1")) :
        s \in {None} \cup {Some(d) : d \in Dates},
        o \in {None} \cup {Some(p) : p \in ParcelIds}}

RawAnimals ==
    {RawAnimal(FALSE, 0, None)} \cup
    {RawAnimal(TRUE, d, o) : d \in Dates, o \in {None} \cup {Some(p) : p \in ParcelIds}}

RecordsOf(report) == IF report = "animals_report" THEN RawAnimals ELSE RawRecords

\* What json.loads makes of an uploaded file, by the shape of the file: not
\* JSON at all, a JSON document that is empty, a JSON object without
\* "@graph", or an object with its "@graph" list.
NoDoc == [shape |-> "none", graph |-> <<>>]

json_loads(shape, report) ==
    IF shape = "graph"
    THEN {[shape |-> "graph", graph |-> g] : g \in SeqsUpTo(RecordsOf(report), MaxOps)}
    ELSE {[shape |-> shape, graph |-> <<>>]}

ErrorResponse == [status |-> "error", body |-> <<>>]

ListResponses(report) ==
    {ErrorResponse} \cup
    {[status |-> "ok", body |-> g] : g \in SeqsUpTo(RecordsOf(report), MaxOps)}

ItemResponses(report) ==
    {ErrorResponse} \cup {[status |-> "ok", body |-> r] : r \in RecordsOf(report)}

ParcelEnvs(gatekeeper) ==
    IF ~gatekeeper
    THEN {[gatekeeper |-> FALSE, found |-> FALSE, area |-> 0, farmRef |-> "missing",
           farmFound |-> FALSE, geocodeOk |-> FALSE]}
    ELSE {e \in [gatekeeper : {TRUE}, found : BOOLEAN, area : Areas,
                 farmRef : {"missing", "noid", "id"}, farmFound : BOOLEAN,
                 geocodeOk : BOOLEAN] :
            /\ ~e.found => (e.area = 0 /\ e.farmRef = "missing" /\ ~e.farmFound
                            /\ ~e.geocodeOk)
            /\ e.farmRef # "id" => ~e.farmFound}

\* The remote world of a parcel lookup that finds nothing.
NoParcelEnv ==
    [gatekeeper |-> TRUE, found |-> FALSE, area |-> 0, farmRef |-> "missing",
     farmFound |-> FALSE, geocodeOk |-> FALSE]

NoPestEnv == [p \in PestIds |-> "error"]

PestEnvs == [PestIds -> {"error", "noname", "Name-A"}]

Reports == {"irrigation_report", "irrig_fert_pest_report", "animals_report"}

KindsOf(report) ==
    IF report = "irrigation_report" THEN {"irrigation"}
    ELSE IF report = "irrig_fert_pest_report"
    THEN {"irrigation", "fertilization", "pesticide"}
    ELSE {"animal"}

OptionOf(S) == {None} \cup {Some(x) : x \in S}

\* The arguments the endpoints hand to the processing functions.  Without
\* the gatekeeper an uploaded file is required (api/api_v1/endpoints/
\* report.py); the animal endpoint builds params only when no file was
\* uploaded and passes no parcel id.
ArgsOf(report, gatekeeper) ==
    {a \in [report : {report}, kind : KindsOf(report),
            data : OptionOf({"notjson", "empty", "nograph", "graph"}),
            id : OptionOf({"id-1"}),
            parcel_id : OptionOf(ParcelIds), from_date : OptionOf({1}),
            to_date : OptionOf({2}),
            params : OptionOf({{}, {<<"name", "n">>}}),
            pdf_file_name : {"user/report-1"}] :
        /\ ~gatekeeper => ~IsNone(a.data)
        /\ report # "animals_report" => IsNone(a.params)
        /\ report = "animals_report" =>
              /\ IsNone(a.parcel_id)
              /\ IsNone(a.data) <=> ~IsNone(a.params)}

(***************************************************************************)
(* The processing functions, as functions of their arguments and of what   *)
(* the outside answers: response is the answer of the remote service to    *)
(* the fetch of the primary collection, doc what json.loads makes of the   *)
(* uploaded file, env and pest_env the answers to the parcel and pesticide *)
(* lookups.  The result holds the final values of the local variables, the *)
(* exception that left the function ("" if none) and whether the artifact  *)
(* was written.                                                            *)
(***************************************************************************)
\* Python truthiness of json_data: None and the empty list are falsy.
Truthy(j) == ~IsNone(j) /\ Val(j) # <<>>

Ingested(raised, j, used, params) ==
    [raised |-> raised, json_data |-> j, data_used |-> used, params |-> params]

Outcome(ing, operations, pdf, error, at) ==
    [json_data |-> ing.json_data, data_used |-> ing.data_used,
     params |-> ing.params, operations |-> operations, pdf |-> pdf,
     error |-> error, failed_at |-> at, written |-> error = ""]

\* irrig_fert_pest_report.py lines 402-436 (irrigation_report.py lines
\* 310-337): the three ingestion modes.  json.loads and the "@graph"
\* subscript are outside every try block.
IngestOperations(a, response, doc) ==
    IF ~IsNone(a.id)
    THEN LET j == make_get_request(response)
         IN  Ingested("", IF ~IsNone(j) THEN Some(<<Val(j)>>) ELSE None, FALSE,
                      {<<"format", "json">>})
    ELSE IF IsNone(a.data)
    THEN Ingested("", make_get_request(response), FALSE,
                  decode_dates_filters(
                      IF ~IsNone(a.parcel_id)
                      THEN {<<"format", "json">>, <<"parcel", Val(a.parcel_id)>>}
                      ELSE {<<"format", "json">>},
                      a.from_date, a.to_date))
    ELSE IF doc.shape = "notjson" THEN Ingested("JSONDecodeError", None, TRUE, {})
    ELSE IF doc.shape = "nograph" THEN Ingested("KeyError", None, TRUE, {})
    ELSE IF doc.shape = "empty" THEN Ingested("", None, TRUE, {})
    ELSE Ingested("", Some(doc.graph), TRUE, {})

process_irrigation_fertilization_data(a, response, doc, env, pest_env) ==
    LET ing == IngestOperations(a, response, doc)
        parsed == IF Truthy(ing.json_data)
                  THEN parse_irrig_fert_operations(Val(ing.json_data),
                           a.kind = "irrigation", a.kind = "fertilization")
                  ELSE ParseResult("", <<>>)
        r == create_pdf_from_operations(parsed.operations, ing.data_used,
                 a.parcel_id, a.from_date, a.to_date, a.kind = "irrigation",
                 a.kind = "fertilization", env, pest_env)
    IN  IF ing.raised # "" THEN Outcome(ing, None, NoPdf, ing.raised, "ingest")
        ELSE IF parsed.raised # ""
        THEN Outcome(ing, None, NoPdf, parsed.raised, "parse")
        ELSE IF r.raised # ""
        THEN Outcome(ing, Some(r.operations), NoPdf, "HTTPException-400-assembly", r.at)
        ELSE Outcome(ing, Some(r.operations), r.pdf, "", "")

process_irrigation_data(a, response, doc, env) ==
    LET ing == IngestOperations(a, response, doc)
        parsed == IF Truthy(ing.json_data)
                  THEN parse_irrigation_operations(Val(ing.json_data))
                  ELSE ParseResult("", <<>>)
        r == irrigation_report_create_pdf_from_operations(parsed.operations,
                 ing.data_used, a.parcel_id, a.from_date, a.to_date, env)
    IN  IF ing.raised # "" THEN Outcome(ing, None, NoPdf, ing.raised, "ingest")
        ELSE IF parsed.raised # ""
        THEN Outcome(ing, None, NoPdf, parsed.raised, "parse")
        ELSE IF r.raised # ""
        THEN Outcome(ing, Some(r.operations), NoPdf, "HTTPException-400-assembly", r.at)
        ELSE Outcome(ing, Some(r.operations), r.pdf, "", "")

\* animals_report.py lines 222-250.  An uploaded file is read only when the
\* gatekeeper is off; with the gatekeeper on and no filter every animal is
\* fetched.
IngestAnimals(a, gatekeeper, response, doc) ==
    IF ~IsNone(a.id)
    THEN LET j == make_get_request(response)
         IN  Ingested("", IF ~IsNone(j) THEN Some(<<Val(j)>>) ELSE None, FALSE,
                      {<<"format", "json">>})
    ELSE IF ~IsNone(a.params) /\ Val(a.params) # {}
    THEN Ingested("", make_get_request(response), FALSE,
                  decode_dates_filters(SetKey(Val(a.params), "format", "json"),
                                       a.from_date, a.to_date))
    ELSE IF ~gatekeeper
    THEN IF doc.shape = "notjson" THEN Ingested("JSONDecodeError", None, TRUE, {})
         ELSE IF doc.shape = "graph" THEN Ingested("", Some(doc.graph), TRUE, {})
         ELSE Ingested("", None, TRUE, {})
    ELSE Ingested("", make_get_request(response), FALSE, {<<"format", "json">>})

process_animal_data(a, gatekeeper, response, doc, env) ==
    LET ing == IngestAnimals(a, gatekeeper, response, doc)
        animals == IF Truthy(ing.json_data) THEN parse_animal_data(Val(ing.json_data))
                   ELSE Some(<<>>)
        r == create_pdf_from_animals(animals, env)
    IN  IF ing.raised # "" THEN Outcome(ing, None, NoPdf, ing.raised, "ingest")
        ELSE IF r.raised # ""
        THEN Outcome(ing, animals, NoPdf, "HTTPException-400-assembly", r.at)
        ELSE Outcome(ing, Some(r.operations), r.pdf, "", "")

(***************************************************************************)
(* The state of one report invocation.                                     *)
(*   pc           "start", "done" (the artifact was written) or "failed"   *)
(*                (an exception left the processing function)              *)
(*   settings     the configuration (REPORTING_USING_GATEKEEPER)           *)
(*   args         the arguments of the processing function                 *)
(*   json_data, data_used, params, operations, pdf                         *)
(*                the final values of its local variables; operations is   *)
(*                None while nothing was parsed                            *)
(*   error        the exception that ended the invocation ("" if none)     *)
(*   failed_at    the part that raised it ("" if none)                     *)
(*   files        the artifact files that exist in PDF_DIRECTORY           *)
(*   parcel_env   the remote world the parcel lookups of the invocation    *)
(*                met (NoParcelEnv while nothing ran)                      *)
(*   retrieved    the answer of the last retrieval of a report (None while *)
(*                none was made)                                           *)
(*   figures      the figures the plotting library holds open, the current *)
(*                one last                                                 *)
(*   tasks        the background tasks that run side by side (specification *)
(*                SpecConcurrent), each with its own local variables       *)
(***************************************************************************)
VARIABLES pc, settings, args, json_data, data_used, params, operations, pdf,
          error, failed_at, files, observations, materials, requests, parcel_env,
          retrieved, figures, tasks

vars == <<pc, settings, args, json_data, data_used, params, operations, pdf,
          error, failed_at, files, observations, materials, requests, parcel_env,
          retrieved, figures, tasks>>

Init ==
    /\ pc = "start"
    /\ settings \in [REPORTING_USING_GATEKEEPER : BOOLEAN]
    /\ args \in UNION {ArgsOf(r, settings.REPORTING_USING_GATEKEEPER) : r \in Reports}
    /\ json_data = None
    /\ data_used = FALSE
    /\ params = {}
    /\ operations = None
    /\ pdf = NoPdf
    /\ error = ""
    /\ failed_at = ""
    /\ files = {}
    /\ observations = <<>>
    /\ materials = <<>>
    /\ requests = <<>>
    /\ parcel_env = NoParcelEnv
    /\ retrieved = None
    /\ figures = <<>>
    /\ tasks = <<>>

\* The remote answers and the parsed upload an invocation can meet: only
\* the one its ingestion mode reads is enumerated.
ResponsesFor(a, gatekeeper) ==
    IF ~IsNone(a.id) THEN ItemResponses(a.report)
    ELSE IF a.report = "animals_report"
    THEN (IF (~IsNone(a.params) /\ Val(a.params) # {}) \/ gatekeeper
          THEN ListResponses(a.report) ELSE {ErrorResponse})
    ELSE IF IsNone(a.data) THEN ListResponses(a.report) ELSE {ErrorResponse}

DocsFor(a, gatekeeper) ==
    IF ~IsNone(a.id) \/ IsNone(a.data) THEN {NoDoc}
    ELSE IF a.report = "animals_report" /\ gatekeeper THEN {NoDoc}
    ELSE json_loads(Val(a.data), a.report)

\* Finish with pdf.output moved before the assembly: the file is written
\* whether or not the invocation fails.
Finish_WritesOnFailure(o, env) ==
    /\ json_data' = o.json_data
    /\ data_used' = o.data_used
    /\ params' = o.params
    /\ operations' = o.operations
    /\ pdf' = o.pdf
    /\ error' = o.error
    /\ failed_at' = o.failed_at
    /\ files' = files \cup {args.pdf_file_name}
    /\ pc' = IF o.written THEN "done" ELSE "failed"
    /\ parcel_env' = env
    /\ UNCHANGED <<settings, args, observations, materials, requests, retrieved, figures, tasks>>

\* The state after the invocation whose outcome is o: pdf.output is the
\* last statement, reached only when nothing was raised.
Finish(o, env) ==
    /\ json_data' = o.json_data
    /\ data_used' = o.data_used
    /\ params' = o.params
    /\ operations' = o.operations
    /\ pdf' = o.pdf
    /\ error' = o.error
    /\ failed_at' = o.failed_at
    /\ files' = IF o.written THEN files \cup {args.pdf_file_name} ELSE files
    /\ pc' = IF o.written THEN "done" ELSE "failed"
    /\ parcel_env' = env
    /\ UNCHANGED <<settings, args, observations, materials, requests, retrieved, figures, tasks>>

ProcessIrrigationData ==
    /\ pc = "start"
    /\ args.report = "irrigation_report"
    /\ \E response \in ResponsesFor(args, settings.REPORTING_USING_GATEKEEPER),
          doc \in DocsFor(args, settings.REPORTING_USING_GATEKEEPER),
          env \in ParcelEnvs(settings.REPORTING_USING_GATEKEEPER) :
          Finish(process_irrigation_data(args, response, doc, env), env)

ProcessIrrigationFertilizationData ==
    /\ pc = "start"
    /\ args.report = "irrig_fert_pest_report"
    /\ \E response \in ResponsesFor(args, settings.REPORTING_USING_GATEKEEPER),
          doc \in DocsFor(args, settings.REPORTING_USING_GATEKEEPER),
          env \in ParcelEnvs(settings.REPORTING_USING_GATEKEEPER),
          pest_env \in IF args.kind = "pesticide" THEN PestEnvs ELSE {NoPestEnv} :
          Finish(process_irrigation_fertilization_data(args, response, doc, env,
                                                       pest_env), env)

ProcessAnimalData ==
    /\ pc = "start"
    /\ args.report = "animals_report"
    /\ \E response \in ResponsesFor(args, settings.REPORTING_USING_GATEKEEPER),
          doc \in DocsFor(args, settings.REPORTING_USING_GATEKEEPER),
          env \in ParcelEnvs(settings.REPORTING_USING_GATEKEEPER) :
          Finish(process_animal_data(args, settings.REPORTING_USING_GATEKEEPER,
                                     response, doc, env), env)

Next ==
    \/ ProcessIrrigationData
    \/ ProcessIrrigationFertilizationData
    \/ ProcessAnimalData

Spec == Init /\ [][Next]_vars

(***************************************************************************)
(* The summary computations on their own: lines 317-382 of                 *)
(* irrig_fert_pest_report.py applied to a list of parsed operations, with  *)
(* the doses, units, pesticide references and the parcel area drawn from   *)
(* small sets.  args holds the list, the area of the resolved parcel       *)
(* (square metres) and the answers of the pesticide endpoint.              *)
(***************************************************************************)
SummaryAreas == {0, 5000, 15000, 20000}

SummaryPestIds == {"pest-1", "pest-2"}

SummaryPestEnvs == [SummaryPestIds -> {"noname", "Name-A", "Name-B"}]

IrrigationOps ==
    {model_validate(RawRecord(TRUE, Some(d), None, Some(QuantityValue("m3", v)), None),
                    "IrrigationOperation") : d \in Dates, v \in 1..MaxDose}

PesticideOps ==
    {model_validate(RawRecord(TRUE, Some(1), None, Some(QuantityValue(u, v)), p),
                    "CropProtectionOperation") :
        u \in {"l", "kg"}, v \in 1..MaxDose, p \in OptionOf(SummaryPestIds)}

SummaryArgs ==
    [report : {"summary"}, kind : {"irrigation"},
     operations : SeqsUpTo(IrrigationOps, MaxDoses), parcel_id : OptionOf(ParcelIds),
     area : SummaryAreas, pest_env : {[p \in SummaryPestIds |-> "noname"]}]
    \cup
    [report : {"summary"}, kind : {"pesticide"},
     operations : SeqsUpTo(PesticideOps, MaxPests), parcel_id : OptionOf(ParcelIds),
     area : {0}, pest_env : SummaryPestEnvs]

\* The dose aggregation called on its own, on a list of 0..MaxDoses
\* irrigation operations.
AggregationArgs ==
    [report : {"aggregation"}, kind : {"irrigation"},
     operations : SeqsUpTo(IrrigationOps, MaxDoses), parcel_id : {None},
     area : {0, 20000}, pest_env : {[p \in SummaryPestIds |-> "noname"]}]

InitSummary ==
    /\ pc = "start"
    /\ settings = [REPORTING_USING_GATEKEEPER |-> TRUE]
    /\ args \in SummaryArgs \cup AggregationArgs
    /\ json_data = None
    /\ data_used = FALSE
    /\ params = {}
    /\ operations = None
    /\ pdf = NoPdf
    /\ error = ""
    /\ failed_at = ""
    /\ files = {}
    /\ observations = <<>>
    /\ materials = <<>>
    /\ requests = <<>>
    /\ parcel_env = NoParcelEnv
    /\ retrieved = None
    /\ figures = <<>>
    /\ tasks = <<>>

Summarise ==
    /\ pc = "start"
    /\ args.report = "summary"
    /\ LET r == SummarySections(args.operations, ~IsNone(args.parcel_id),
                                [address |-> "", area |-> args.area],
                                args.kind = "irrigation", args.pest_env)
       IN  /\ pdf' = [NoPdf EXCEPT !.graphs = r.graphs, !.aggregates = r.aggregates,
                                   !.pesticides = r.pesticides]
           /\ error' = r.raised
           /\ failed_at' = IF r.raised = "" THEN "" ELSE "summary"
           /\ pc' = IF r.raised = "" THEN "done" ELSE "failed"
    /\ operations' = Some(args.operations)
    /\ UNCHANGED <<settings, args, json_data, data_used, params, files,
                   observations, materials, requests, parcel_env, retrieved, figures, tasks>>

\* The state after the volume computation tv and the aggregation.
FinishAggregation(tv) ==
    /\ pdf' = IF tv.raised # "" THEN NoPdf
              ELSE [NoPdf EXCEPT !.graphs = Some([total_volume |-> tv.image,
                                                  amount_per_hectare |->
                                                      generate_amount_per_hectare(tv.df)]),
                                 !.aggregates = Some(generate_aggregation_table_data(tv.df))]
    /\ error' = tv.raised
    /\ failed_at' = IF tv.raised = "" THEN "" ELSE "aggregation"
    /\ pc' = IF tv.raised = "" THEN "done" ELSE "failed"
    /\ operations' = Some(args.operations)
    /\ UNCHANGED <<settings, args, json_data, data_used, params, files,
                   observations, materials, requests, parcel_env, retrieved, figures,
                   tasks>>

\* prepare_df_for_calculations, generate_total_volume_graph,
\* generate_amount_per_hectare and generate_aggregation_table_data in the
\* order of irrig_fert_pest_report.py lines 325-342, without the test of
\* line 317 in front.
AggregateDoses ==
    /\ pc = "start"
    /\ args.report = "aggregation"
    /\ FinishAggregation(generate_total_volume_graph(
                             prepare_df_for_calculations(args.operations),
                             AreaParcel(args.area)))

NextSummary ==
    \/ Summarise
    \/ AggregateDoses

SpecSummary == InitSummary /\ [][NextSummary]_vars

(***************************************************************************)
(* Properties of the report invocations (specification Spec).              *)
(***************************************************************************)
IsOperationsReport == args.report \in {"irrigation_report", "irrig_fert_pest_report"}

IsIrrigFertPest == args.report = "irrig_fert_pest_report"

\* The assembler got as far as choosing its branch on len(operations).
AssemblerSelected == pc = "done" \/ failed_at \in {"single", "table", "summary"}

NumOps == Len(Val(operations))

ModeOf(n) == IF n = 0 THEN "Empty" ELSE IF n = 1 THEN "Single" ELSE "Multiple"

\* The branch the assembler ran: the section it wrote, or the one it was
\* writing when it failed.
ContentMode ==
    IF ~IsNone(pdf.detail) \/ failed_at = "single" THEN "Single"
    ELSE IF ~IsNone(pdf.table) \/ failed_at = "table" THEN "Multiple"
    ELSE "Empty"

\* The start cell of row i of the table: the formatted start time, or the
\* empty text when the operation has none.
RowStart(i) == Val(pdf.table).rows[i][1].val[1]

\* C1: in every invocation of the irrigation / fertilization / pest-control
\* assemblers the content mode is decided by the size n of the parsed
\* collection alone: 0 gives Empty, 1 gives Single, 2 or more gives
\* Multiple, whatever the ingestion source and the filters.
C1_ModeIsFunctionOfSize ==
    (IsOperationsReport /\ ~IsNone(operations) /\ AssemblerSelected)
        => ContentMode = ModeOf(NumOps)

\* C1, a case: an uploaded graph of two operations with a parcel filter is
\* assembled in Multiple mode.
C1_Witness ==
    /\ IsOperationsReport /\ pc = "done" /\ data_used
    /\ ~IsNone(args.parcel_id)
    /\ NumOps = 2 /\ ContentMode = "Multiple"

\* C2: an irrigation report with exactly one operation, no parcel filter
\* and no parcel reference on the operation finishes in Single mode, and
\* its detail section shows the applied amount (numericValue and unit).
C2_SingleWithoutParcelFinishes ==
    (/\ IsOperationsReport /\ args.kind = "irrigation"
     /\ ~IsNone(operations) /\ AssemblerSelected
     /\ NumOps = 1
     /\ IsNone(args.parcel_id)
     /\ IsNone(Val(operations)[1].operatedOn))
        => /\ pc = "done"
           /\ ~IsNone(pdf.detail)
           /\ Val(pdf.detail).value =
                 <<Val(Val(operations)[1].hasAppliedAmount).numericValue,
                   Val(Val(operations)[1].hasAppliedAmount).unit>>

\* C3 as stated: in Multiple mode the rows of the table are in ascending
\* order of start time, for fetched and for uploaded records alike.
C3_RowsAscendingAnySource ==
    (IsOperationsReport /\ pc = "done" /\ ~IsNone(pdf.table))
        => \A i, j \in 1..Len(Val(pdf.table).rows) :
              (i < j /\ RowStart(i).fmt # "" /\ RowStart(j).fmt # "")
                  => RowStart(i).day <= RowStart(j).day

\* C3, amended: the rows of fetched records are in ascending order of start
\* time; the rows of an uploaded graph are in the order of the graph.
C3_RowsAscendingWhenFetched ==
    (IsOperationsReport /\ pc = "done" /\ ~IsNone(pdf.table))
        => IF ~data_used
           THEN \A i, j \in 1..Len(Val(pdf.table).rows) :
                   i < j => (/\ RowStart(i).fmt # "" /\ RowStart(j).fmt # ""
                             /\ RowStart(i).day <= RowStart(j).day)
           ELSE /\ Len(Val(pdf.table).rows) = Len(Val(json_data))
                /\ \A i \in 1..Len(Val(json_data)) :
                      RowStart(i) = FormatOpt(Val(json_data)[i].hasStartDatetime,
                                              "%d/%m/%Y")

\* C3, a case: two operations fetched in descending order of start time are
\* listed in ascending order.
C3_Witness ==
    /\ IsOperationsReport /\ pc = "done" /\ ~data_used /\ ~IsNone(pdf.table)
    /\ Len(Val(json_data)) = 2
    /\ Val(json_data)[1].hasStartDatetime = Some(2)
    /\ Val(json_data)[2].hasStartDatetime = Some(1)
    /\ RowStart(1).day = 1 /\ RowStart(2).day = 2

ChartsEmitted == ~IsNone(pdf.graphs) \/ ~IsNone(pdf.aggregates)

\* C4 as stated: the charts and the aggregate table are emitted only in
\* Multiple mode, for the irrigation kind, and when a parcel with nonzero
\* area was resolved.
C4_ChartsOnlyWithNonzeroArea ==
    (IsOperationsReport /\ pc = "done" /\ ChartsEmitted)
        => /\ args.kind = "irrigation"
           /\ NumOps >= 2
           /\ ~IsNone(pdf.parcel)
           /\ Val(pdf.parcel).area > 0

\* C4, amended: a finished document has the charts and the aggregate table
\* exactly when the report is of the irrigation kind, in Multiple mode and
\* a parcel id filter was supplied, whatever the area of the resolved
\* parcel; the two are emitted together.
C4_ChartsIffIrrigationMultipleParcelFilter ==
    (IsOperationsReport /\ pc = "done")
        => /\ ChartsEmitted <=> (/\ IsIrrigFertPest
                                 /\ args.kind = "irrigation"
                                 /\ NumOps >= 2
                                 /\ ~IsNone(args.parcel_id))
           /\ ~IsNone(pdf.graphs) <=> ~IsNone(pdf.aggregates)

\* C4, a case: charts in a document whose parcel resolved to area zero, the
\* total volumes all being zero.
C4_Witness ==
    /\ IsIrrigFertPest /\ pc = "done" /\ ~IsNone(pdf.graphs)
    /\ Val(pdf.parcel).area = 0
    /\ \A i \in 1..Len(Val(pdf.graphs).total_volume) :
          Val(pdf.graphs).total_volume[i].y = 0

\* C5 as stated: the per-pesticide table is emitted if and only if the
\* report is of the pest-control kind and in Multiple mode, with or without
\* a parcel id filter.
C5_PesticideTableIffPestMultiple ==
    (IsOperationsReport /\ pc = "done")
        => (~IsNone(pdf.pesticides)
               <=> (args.kind = "pesticide" /\ NumOps >= 2))

\* C5, amended: a finished document has the per-pesticide table if and only
\* if the report is of the pest-control kind, in Multiple mode and a parcel
\* id filter was supplied.
C5_PesticideTableIffPestMultipleParcelFilter ==
    (IsOperationsReport /\ pc = "done")
        => (~IsNone(pdf.pesticides)
               <=> (/\ IsIrrigFertPest
                    /\ args.kind = "pesticide"
                    /\ NumOps >= 2
                    /\ ~IsNone(args.parcel_id)))

\* C5, a case: a pest-control report of two operations for a given parcel
\* has the table.
C5_Witness ==
    /\ IsIrrigFertPest /\ pc = "done" /\ args.kind = "pesticide"
    /\ NumOps = 2 /\ ~IsNone(args.parcel_id) /\ ~IsNone(pdf.pesticides)

C10_InvalidRecordIsValidationFailure ==
    (Truthy(json_data) /\ \E i \in 1..Len(Val(json_data)) : ~Val(json_data)[i].valid)
        => /\ pc = "failed"
           /\ error = "HTTPException-400-validation"
           /\ IsNone(operations)

(***************************************************************************)
(* Properties of the summary computations (specification SpecSummary).     *)
(***************************************************************************)
IsSummary == args.report = "summary"

Doses(D) == [i \in 1..Len(D) |-> Val(D[i].hasAppliedAmount).numericValue]

RECURSIVE SumUpTo(_, _)
SumUpTo(f, n) == IF n = 0 THEN 0 ELSE SumUpTo(f, n - 1) + f[n]

RECURSIVE TotalDose(_)
TotalDose(S) ==
    IF S = {} THEN 0
    ELSE LET r == CHOOSE x \in S : TRUE IN r.Dose + TotalDose(S \ {r})

\* C7: for every non-empty collection D of dosed operations the per-hectare
\* column of the aggregate table holds the sum, the mean (sum / count), the
\* maximum and the minimum of the numericValue of the operations of D.
C7_AggregateStatistics ==
    (IsSummary /\ args.kind = "irrigation" /\ pc # "start"
     /\ args.operations # <<>> /\ ~IsNone(args.parcel_id))
        => /\ pc = "done"
           /\ ~IsNone(pdf.aggregates)
           /\ LET d == Doses(args.operations)
                  agg == Val(pdf.aggregates)
              IN  /\ agg.sum[1] = SumUpTo(d, Len(d))
                  /\ agg.mean[1] = [num |-> SumUpTo(d, Len(d)), den |-> Len(d)]
                  /\ agg.max[1] \in Range(d)
                  /\ \A x \in Range(d) : x <= agg.max[1]
                  /\ agg.min[1] \in Range(d)
                  /\ \A x \in Range(d) : agg.min[1] <= x

\* C7, a case: the doses 1, 2, 3 give sum 6, mean 6 / 3, maximum 3 and
\* minimum 1.
C7_Witness ==
    /\ IsSummary /\ pc = "done" /\ ~IsNone(pdf.aggregates)
    /\ Doses(args.operations) = <<1, 2, 3>>
    /\ Val(pdf.aggregates).sum[1] = 6
    /\ Val(pdf.aggregates).mean[1] = [num |-> 6, den |-> 3]
    /\ Val(pdf.aggregates).max[1] = 3
    /\ Val(pdf.aggregates).min[1] = 1

\* C8: every point of the total-volume series is the dose of its operation
\* multiplied by the area of the resolved parcel in hectares (the area is
\* held in square metres, 10000 to the hectare), for every area.
C8_TotalVolumeIsDoseTimesHectares ==
    (IsSummary /\ pc = "done" /\ ~IsNone(pdf.graphs))
        => LET D == args.operations
               points == Val(pdf.graphs).total_volume
           IN  /\ Len(points) = Len(D)
               /\ \A i \in 1..Len(points) :
                     \E j \in 1..Len(D) :
                        /\ D[j].hasStartDatetime = points[i].x
                        /\ points[i].y * 10000 =
                              Val(D[j].hasAppliedAmount).numericValue * args.area

\* C9: pesticides_aggregation returns exactly one total per distinct pair
\* (pesticide name, unit) of the input, the sum of the doses of the
\* operations with that pair, and the totals add up to the sum of all doses.
C9_OneTotalPerNameAndUnit ==
    (IsSummary /\ args.kind = "pesticide" /\ pc = "done" /\ ~IsNone(pdf.pesticides))
        => LET D == args.operations
               Name(i) == get_pest_from_obj(D[i], args.pest_env)
               Unit(i) == Val(D[i].hasAppliedAmount).unit
               Pairs == {<<Name(i), Unit(i)>> : i \in 1..Len(D)}
               DoseOf(k) ==
                   [i \in 1..Len(D) |->
                       IF <<Name(i), Unit(i)>> = k THEN Doses(D)[i] ELSE 0]
               sums == Val(pdf.pesticides)
           IN  /\ Cardinality(sums) = Cardinality(Pairs)
               /\ \A k \in Pairs :
                     \E r \in sums : /\ Some(r.Pesticide) = k[1]
                                     /\ r.Unit = k[2]
                                     /\ r.Dose = SumUpTo(DoseOf(k), Len(D))
               /\ TotalDose(sums) = SumUpTo(Doses(D), Len(D))

(***************************************************************************)
(* C20: get_parcel_info never raises: whatever the parcel fetch, the farm  *)
(* fetch and the geocoding return, and whether or not the parcel payload   *)
(* carries a farm reference or a farm id, no invocation stops in the       *)
(* report-wide parcel lookup.                                              *)
(***************************************************************************)
C20_GetParcelInfoNeverRaises == failed_at # "parcel"

(***************************************************************************)
(* Farm-calendar (compost) report: utils/farm_calendar_report.py.          *)
(*                                                                         *)
(* schemas/compost.py.  CropObservation, Operation and                     *)
(* AddRawMaterialOperation share the optional fields hasStartDatetime,     *)
(* hasEndDatetime and phenomenonTime; a raw-material operation carries     *)
(* hasCompostMaterial, a list of line items (typeName, optional            *)
(* quantityValue).  "details" names the item.                              *)
(***************************************************************************)
MaxItems == 2
MaxLines == 2
MaxActs == 2

CompostMaterial(typeName, quantityValue) == [typeName |-> typeName, quantityValue |-> quantityValue]

CalendarItem(type, start, phenomenon, lines, details) ==
    [type |-> type, hasStartDatetime |-> start, hasEndDatetime |-> None,
     phenomenonTime |-> phenomenon, hasCompostMaterial |-> lines,
     hasAppliedAmount |-> IF type = "IrrigationOperation"
                          THEN Some(QuantityValue("m3", 5)) ELSE None,
     observedProperty |-> IF type = "Observation" THEN "temperature" ELSE "",
     hasResult |-> IF type = "Observation"
                   THEN Some([hasValue |-> 20, unit |-> "C"]) ELSE None,
     details |-> details]

CalendarOperation(start, parcel, details) ==
    [type |-> "CompostOperation", hasStartDatetime |-> start, hasEndDatetime |-> None,
     phenomenonTime |-> None, hasAgriParcel |-> parcel,
     usesAgriculturalMachinery |-> None, isOperatedOn |-> None,
     responsibleAgent |-> None, details |-> details]

\* itertools.chain.from_iterable over a list of lists.
RECURSIVE chain_from_iterable(_)
chain_from_iterable(lists) ==
    IF lists = <<>> THEN <<>>
    ELSE Head(lists) \o chain_from_iterable(Tail(lists))

(***************************************************************************)
(* create_farm_calendar_pdf, lines 292-404: the data table of the merged   *)
(* observations and materials.  A cell of the "Start - End" column is the  *)
(* pair of the two formatted dates, a cell of the "Values info" column is  *)
(* the pair <<numericValue, unit>> (<<>> for an empty text); the other     *)
(* cells are strings.                                                      *)
(***************************************************************************)
DataTableHeader ==
    <<"Start - End", "Is Irrigated", "Is Turned", "Values info", "Property", "Details">>

\* key of merged_data.sort: hasStartDatetime or phenomenonTime (an Optional).
EffectiveTime(item) ==
    IF ~IsNone(item.hasStartDatetime) THEN item.hasStartDatetime
    ELSE item.phenomenonTime

\* (variant: the merged list is rendered as concatenated)
SortMerged_Unsorted(merged) ==
    IF Len(merged) >= 2 /\ \E i \in 1..Len(merged) : IsNone(EffectiveTime(merged[i]))
    THEN [raised |-> "TypeError", merged |-> merged]
    ELSE [raised |-> "", merged |-> merged]

\* list.sort compares the keys as soon as there are two items: a None key
\* is a TypeError; a single item is not compared.
SortMerged(merged) ==
    IF Len(merged) < 2 THEN [raised |-> "", merged |-> merged]
    ELSE IF \E i \in 1..Len(merged) : IsNone(EffectiveTime(merged[i]))
    THEN [raised |-> "TypeError", merged |-> merged]
    ELSE [raised |-> "",
          merged |-> SortByKey(merged, [i \in 1..Len(merged) |->
                                            Val(EffectiveTime(merged[i]))])]

StartEndCell(x) ==
    <<strftime(Val(EffectiveTime(x)), "%d/%m/%Y"), FormatOpt(x.hasEndDatetime, "%d/%m/%Y")>>

ValueText(q) == <<q.numericValue, q.unit>>

\* One row of a record with several line items (lines 355-383).
InnerRow(x, qv) ==
    <<StartEndCell(x), "", "", ValueText(Val(qv.quantityValue)), qv.typeName, x.details>>

\* The row written under "if not generate_inner_row" (lines 385-404).
PlainRow(x) ==
    LET irrigated == x.type = "IrrigationOperation"
        turned == x.type = "CompostTurningOperation"
        raw == x.type = "AddRawMaterialOperation"
        observed == x.type = "Observation"
        lines == x.hasCompostMaterial
        value == IF observed
                 THEN <<Val(x.hasResult).hasValue, Val(x.hasResult).unit>>
                 ELSE IF raw /\ lines # <<>>
                 THEN ValueText(Val(lines[Len(lines)].quantityValue))
                 ELSE IF irrigated THEN ValueText(Val(x.hasAppliedAmount))
                 ELSE <<>>
        prop == IF observed THEN x.observedProperty
                ELSE IF raw /\ lines # <<>> THEN lines[Len(lines)].typeName
                ELSE ""
    IN  <<StartEndCell(x), IF irrigated THEN "Yes" ELSE "",
          IF turned THEN "Yes" ELSE "", value, prop, x.details>>

\* (variant: an item without any timestamp is rendered with empty dates)
ItemRows_UndatedAsBlank(x) ==
    IF IsNone(x.hasStartDatetime) /\ IsNone(x.phenomenonTime)
    THEN [raised |-> "",
          rows |-> << <<<<EmptyText, EmptyText>>, "", "", <<>>, "", x.details>> >>]
    ELSE IF x.type = "AddRawMaterialOperation"
            /\ \E i \in 1..Len(x.hasCompostMaterial) :
                   IsNone(x.hasCompostMaterial[i].quantityValue)
    THEN [raised |-> "AttributeError", rows |-> <<>>]
    ELSE IF x.type = "AddRawMaterialOperation" /\ Len(x.hasCompostMaterial) > 1
    THEN [raised |-> "",
          rows |-> [i \in 1..Len(x.hasCompostMaterial) |->
                       InnerRow(x, x.hasCompostMaterial[i])]]
    ELSE [raised |-> "", rows |-> <<PlainRow(x)>>]

\* The rows of one merged item, or the exception its rendering raises.
ItemRows(x) ==
    LET raw == x.type = "AddRawMaterialOperation"
        lines == x.hasCompostMaterial
    IN  IF IsNone(EffectiveTime(x))
        \* x.phenomenonTime.strftime on None
        THEN [raised |-> "AttributeError", rows |-> <<>>]
        ELSE IF x.type = "IrrigationOperation" /\ IsNone(x.hasAppliedAmount)
        THEN [raised |-> "AttributeError", rows |-> <<>>]
        ELSE IF raw /\ \E i \in 1..Len(lines) : IsNone(lines[i].quantityValue)
        \* qv.quantityValue.numericValue on None (line 352)
        THEN [raised |-> "AttributeError", rows |-> <<>>]
        ELSE IF raw /\ Len(lines) > 1
        THEN [raised |-> "", rows |-> [i \in 1..Len(lines) |-> InnerRow(x, lines[i])]]
        ELSE [raised |-> "", rows |-> <<PlainRow(x)>>]

\* The table of the rows per[i] of the sorted items.
DataTableOf(items, per) ==
    IF \E i \in 1..Len(per) : per[i].raised # ""
    THEN [raised |-> "AttributeError", table |-> None]
    ELSE [raised |-> "",
          table |-> Some([header |-> DataTableHeader, items |-> items,
                          rows |-> chain_from_iterable([i \in 1..Len(per) |-> per[i].rows])])]

RenderMerged(sorted) ==
    IF sorted.merged = <<>> THEN [raised |-> "", table |-> None]
    ELSE IF sorted.raised # "" THEN [raised |-> sorted.raised, table |-> None]
    ELSE DataTableOf(sorted.merged,
                     [i \in 1..Len(sorted.merged) |-> ItemRows(sorted.merged[i])])

\* merged_data = calendar_data.observations + calendar_data.materials
DataTableSection(observations_, materials_) ==
    RenderMerged(SortMerged(observations_ \o materials_))

(***************************************************************************)
(* create_farm_calendar_pdf, lines 88-290: the section of the operations.  *)
(* The operations of the model use no agricultural machinery, so the       *)
(* parcel of the single-operation section comes from hasAgriParcel only.   *)
(***************************************************************************)
NoCalendarPdf ==
    [title |-> "", generated |-> EmptyText, detail |-> None, operations |-> None,
     data_table |-> None]

SingleDetail(operation, materials_, info) ==
    IF info.raised # "" THEN [raised |-> info.raised, detail |-> None]
    ELSE [raised |-> "",
          detail |-> Some([address |-> info.parcel_data.address,
                           farm |-> info.farm.name,
                           details |-> operation.details,
                           start_date |-> FormatOpt(operation.hasStartDatetime, "%d/%m/%Y"),
                           end_date |-> FormatOpt(operation.hasEndDatetime, "%d/%m/%Y"),
                           material |-> IF materials_ # <<>>
                                           /\ materials_[1].hasCompostMaterial # <<>>
                                        THEN Some(materials_[1].hasCompostMaterial[1])
                                        ELSE None])]

CalendarSingleSection(calendar_data, env) ==
    IF IsNone(calendar_data.operations[1].hasAgriParcel)
    \* address, farm = "", "" and then farm.name (lines 114, 133)
    THEN [raised |-> "AttributeError", detail |-> None]
    ELSE SingleDetail(calendar_data.operations[1], calendar_data.materials,
                      get_parcel_info(env))

\* Lines 276-284: the last two cells of a row of the operations table, read
\* from "operation" after the loop body rebinds it to operations[0].
CompostPileCell(operation) ==
    IF ~IsNone(operation.isOperatedOn) THEN Val(operation.isOperatedOn)
    ELSE "Empty Pile Value"

ResponsibleAgentCell(operation) ==
    IF ~IsNone(operation.responsibleAgent) THEN Val(operation.responsibleAgent) ELSE ""

CalendarOperationsTable(operations_) ==
    IF \E i \in 1..Len(operations_) : IsNone(operations_[i].hasStartDatetime)
    \* operations.sort(key=lambda x: x.hasStartDatetime) compares None
    THEN [raised |-> "TypeError", operations |-> operations_, table |-> None]
    ELSE LET sorted == SortByKey(operations_, [i \in 1..Len(operations_) |->
                                                  Val(operations_[i].hasStartDatetime)])
         IN  [raised |-> "", operations |-> sorted,
              table |-> Some([i \in 1..Len(sorted) |->
                                 <<sorted[i].details,
                                   FormatOpt(sorted[i].hasStartDatetime, "%d/%m/%Y"),
                                   IF IsNone(sorted[i].hasEndDatetime) THEN "N/A "
                                   ELSE strftime(Val(sorted[i].hasEndDatetime), "%d/%m/%Y"),
                                   sorted[i].responsibleAgent,
                                   CompostPileCell(sorted[1]),
                                   ResponsibleAgentCell(sorted[1])>>])]

\* The document of the three sections, or the first exception.
CalendarSections(single, multiple, data) ==
    IF single.raised # ""
    THEN [raised |-> single.raised, at |-> "single", pdf |-> NoCalendarPdf]
    ELSE IF multiple.raised # ""
    THEN [raised |-> multiple.raised, at |-> "table", pdf |-> NoCalendarPdf]
    ELSE IF data.raised # ""
    THEN [raised |-> data.raised, at |-> "data_table", pdf |-> NoCalendarPdf]
    ELSE [raised |-> "", at |-> "",
          pdf |-> [title |-> "Compost Operation Report",
                   generated |-> strftime(TODAY, "%d/%m/%Y"),
                   detail |-> single.detail, operations |-> multiple.table,
                   data_table |-> data.table]]

\* calendar_data is the record of the three validated lists; env is the
\* remote world of the parcel lookup.  "at" names the section that raised.
create_farm_calendar_pdf(calendar_data, env) ==
    CalendarSections(
        IF Len(calendar_data.operations) = 1
        THEN CalendarSingleSection(calendar_data, env)
        ELSE [raised |-> "", detail |-> None],
        IF Len(calendar_data.operations) > 1
        THEN CalendarOperationsTable(calendar_data.operations)
        ELSE [raised |-> "", operations |-> calendar_data.operations, table |-> None],
        DataTableSection(calendar_data.observations, calendar_data.materials))

(***************************************************************************)
(* Specification SpecDataTable: create_farm_calendar_pdf on validated      *)
(* calendar data without operations (what the remote mode hands over when  *)
(* the operations collection is empty), at most MaxItems merged items and  *)
(* at most MaxLines line items per raw-material record.                    *)
(***************************************************************************)
ObservationItems ==
    {CalendarItem("Observation", None, pt, <<>>,
                  IF pt = None THEN "observation-undated" ELSE "observation") :
        pt \in {None, Some(1), Some(3)}}

LineItems ==
    {CompostMaterial("straw", Some(QuantityValue("kg", 3))),
     CompostMaterial("manure", Some(QuantityValue("kg", 4))),
     CompostMaterial("leaves", None)}

MaterialItems ==
    {CalendarItem("AddRawMaterialOperation", Some(2), Some(4), lines, "raw") :
        lines \in SeqsUpTo(LineItems, MaxLines)}
    \cup {CalendarItem("AddRawMaterialOperation", None, Some(0), <<>>, "raw-early"),
          CalendarItem("AddRawMaterialOperation", None, None, <<>>, "raw-undated"),
          CalendarItem("IrrigationOperation", Some(1), None, <<>>, "irrigation"),
          CalendarItem("CompostTurningOperation", Some(3), None, <<>>, "turning")}

DataTableArgs ==
    UNION {[report : {"data_table"}, observations : [1..k -> ObservationItems],
            materials : [1..l -> MaterialItems], pdf_file_name : {"user/report-1"}] :
           <<k, l>> \in {kl \in (0..MaxItems) \X (0..MaxItems) : kl[1] + kl[2] <= MaxItems}}

InitDataTable ==
    /\ pc = "start"
    /\ settings = [REPORTING_USING_GATEKEEPER |-> TRUE]
    /\ args \in DataTableArgs
    /\ json_data = None
    /\ data_used = FALSE
    /\ params = {}
    /\ operations = None
    /\ pdf = NoCalendarPdf
    /\ error = ""
    /\ failed_at = ""
    /\ files = {}
    /\ observations = <<>>
    /\ materials = <<>>
    /\ requests = <<>>
    /\ parcel_env = NoParcelEnv
    /\ retrieved = None
    /\ figures = <<>>
    /\ tasks = <<>>

FinishDataTable(calendar_data, r) ==
    /\ observations' = calendar_data.observations
    /\ materials' = calendar_data.materials
    /\ operations' = Some(calendar_data.operations)
    /\ pdf' = r.pdf
    /\ error' = IF r.raised = "" THEN "" ELSE "HTTPException-400-processing"
    /\ failed_at' = r.at
    /\ files' = IF r.raised = "" THEN files \cup {args.pdf_file_name} ELSE files
    /\ pc' = IF r.raised = "" THEN "done" ELSE "failed"
    /\ UNCHANGED <<settings, args, json_data, data_used, params, requests, parcel_env, retrieved, figures, tasks>>

CreateFarmCalendarPdf ==
    /\ pc = "start"
    /\ args.report = "data_table"
    /\ FinishDataTable([observations |-> args.observations, operations |-> <<>>,
                        materials |-> args.materials],
                       create_farm_calendar_pdf([observations |-> args.observations,
                                                 operations |-> <<>>,
                                                 materials |-> args.materials],
                                                NoParcelEnv))

NextDataTable == CreateFarmCalendarPdf

SpecDataTable == InitDataTable /\ [][NextDataTable]_vars

(***************************************************************************)
(* Raw farm-calendar entries.  An entry of a remote answer or of an        *)
(* uploaded graph is a JSON object: "valid" says whether the schema        *)
(* accepts it and "item" is what validation makes of it.  The key          *)
(* hasMember is absent (None), present with null (Some(None)) or present   *)
(* with a list (Some(Some(list))); hasMeasurement and hasNestedOperation   *)
(* are absent or lists.  An entry of kind "value" stands for a list        *)
(* element that is no JSON object at all (the value of a hasMember key).   *)
(***************************************************************************)
NoItem == [type |-> "none"]

RawEntry(valid, item) ==
    [kind |-> "record", valid |-> valid, item |-> item, hasMember |-> None,
     hasMeasurement |-> None, hasNestedOperation |-> None]

MemberValue == [RawEntry(FALSE, NoItem) EXCEPT !.kind = "value"]

\* A request the invocation issued: the endpoint, the query parameters and
\* whether make_get_request got an error for it.
Request(url, query, response) == [url |-> url, params |-> query, failed |-> response.status = "error"]

DelKey(query, k) == {q \in query : q[1] # k}

(***************************************************************************)
(* utils/utils.py: get_farm_operation_data.  sub holds the answers of the  *)
(* four sub-resource endpoints of the operation; observations_ is the      *)
(* caller's list, an Optional because the caller may hold None; materials_ *)
(* is the caller's list.  Each step is (fetch; if result: extend).         *)
(***************************************************************************)
SubResources == <<"observations", "materials", "irrigations", "turning_operations">>

get_farm_operation_data(sub, query, observations_, materials_) ==
    LET observations_local == make_get_request(sub.observations)
        part(k) == IF Truthy(make_get_request(sub[SubResources[k]]))
                   THEN Val(make_get_request(sub[SubResources[k]])) ELSE <<>>
        first == Request("operations/id/observations", query, sub.observations)
    IN  IF Truthy(observations_local) /\ IsNone(observations_)
        \* observations.extend on None
        THEN [raised |-> "AttributeError", requests |-> <<first>>,
              observations |-> observations_, materials |-> materials_]
        ELSE [raised |-> "",
              requests |-> [k \in 1..4 |->
                               Request("operations/id/" \o SubResources[k], query,
                                       sub[SubResources[k]])],
              observations |-> IF Truthy(observations_local)
                               THEN Some(Val(observations_) \o Val(observations_local))
                               ELSE observations_,
              materials |-> materials_ \o part(2) \o part(3) \o part(4)]

(***************************************************************************)
(* FarmCalendarData.__init__, lines 30-54: the three lists are validated   *)
(* in turn; iterating None and an entry the schema rejects both end in     *)
(* HTTPException 400.  observations_ and farm_activities are Optionals:    *)
(* the remote mode may hand over None.                                     *)
(***************************************************************************)
Accepted(entries) == \A i \in 1..Len(entries) : entries[i].kind = "record" /\ entries[i].valid

Items(entries) == [i \in 1..Len(entries) |-> entries[i].item]

EmptyCalendar == [observations |-> <<>>, operations |-> <<>>, materials |-> <<>>]

FarmCalendarData(observations_, farm_activities, materials_) ==
    IF IsNone(observations_) \/ IsNone(farm_activities)
    THEN [raised |-> "HTTPException-400-validation", calendar_data |-> EmptyCalendar]
    ELSE IF ~(Accepted(Val(observations_)) /\ Accepted(Val(farm_activities))
              /\ Accepted(materials_))
    THEN [raised |-> "HTTPException-400-validation", calendar_data |-> EmptyCalendar]
    ELSE [raised |-> "",
          calendar_data |-> [observations |-> Items(Val(observations_)),
                             operations |-> Items(Val(farm_activities)),
                             materials |-> Items(materials_)]]

(***************************************************************************)
(* process_farm_calendar_data, lines 523-556: the uploaded graph.          *)
(***************************************************************************)
\* (variant: the unwrap takes the members of the first measurement only)
LegacyUnwrap_FirstOnly(obs) ==
    IF \E i \in 1..Len(obs) : obs[i].kind # "record" \/ IsNone(obs[i].hasMember)
    THEN [failed |-> TRUE, obs |-> obs]
    ELSE IF \E i \in 1..Len(obs) : IsNone(Val(obs[i].hasMember))
    THEN [failed |-> TRUE, obs |-> [i \in 1..Len(obs) |-> MemberValue]]
    ELSE [failed |-> FALSE,
          obs |-> IF obs = <<>> THEN <<>> ELSE Val(Val(obs[1].hasMember))]

\* Lines 535-542.  obs = [o["hasMember"] for o in obs] raises before the
\* assignment when an entry has no hasMember key; the chain of the next
\* statement raises after it when a hasMember value is null.  Both are
\* caught and logged.
LegacyUnwrap(obs) ==
    IF \E i \in 1..Len(obs) : obs[i].kind # "record" \/ IsNone(obs[i].hasMember)
    THEN [failed |-> TRUE, obs |-> obs]
    ELSE IF \E i \in 1..Len(obs) : IsNone(Val(obs[i].hasMember))
    THEN [failed |-> TRUE, obs |-> [i \in 1..Len(obs) |-> MemberValue]]
    ELSE [failed |-> FALSE,
          obs |-> chain_from_iterable([i \in 1..Len(obs) |-> Val(Val(obs[i].hasMember))])]

CalendarLists(raised, observations_, farm_activities, materials_, log) ==
    [raised |-> raised, observations |-> observations_,
     farm_activities |-> farm_activities, materials |-> materials_, requests |-> log]

\* doc is the uploaded text as json.loads sees it.
UploadedCalendar(doc) ==
    LET farm_act == doc.graph
        measured == [i \in 1..Len(farm_act) |-> farm_act[i].hasMeasurement]
        nested == [i \in 1..Len(farm_act) |-> farm_act[i].hasNestedOperation]
        obs == chain_from_iterable([i \in 1..Len(farm_act) |-> Val(measured[i])])
    IN  IF doc.shape = "notjson"
        THEN CalendarLists("JSONDecodeError", None, None, <<>>, <<>>)
        ELSE IF doc.shape = "empty"
        THEN CalendarLists("", Some(<<>>), Some(<<>>), <<>>, <<>>)
        ELSE IF \E i \in 1..Len(farm_act) : IsNone(measured[i])
        \* chain.from_iterable meets the None of x.get("hasMeasurement")
        THEN CalendarLists("TypeError", None, None, <<>>, <<>>)
        ELSE IF obs # <<>> /\ \E i \in 1..Len(farm_act) : IsNone(nested[i])
        THEN CalendarLists("TypeError", None, None, <<>>, <<>>)
        ELSE CalendarLists("", Some(LegacyUnwrap(obs).obs), Some(farm_act),
                           IF obs = <<>> THEN <<>>
                           ELSE chain_from_iterable([i \in 1..Len(farm_act) |-> Val(nested[i])]),
                           <<>>)

(***************************************************************************)
(* process_farm_calendar_data, lines 424-522: the remote mode.  world      *)
(* holds the answers of the endpoints: activity_types (lookup by name),    *)
(* activity_type (by id), observations and operations (filtered lists),    *)
(* operation (by id) and sub (the four sub-resources of an operation).     *)
(***************************************************************************)
BaseParams == {<<"format", "json">>, <<"activity_type", "">>}

\* One more pass of the loop "for o in operations" after the passes that
\* gave before.
NextOperation(before, sub, query) ==
    IF before.raised # "" THEN before
    ELSE LET r == get_farm_operation_data(sub, query, before.observations, before.materials)
         IN  [raised |-> r.raised, requests |-> before.requests \o r.requests,
              observations |-> r.observations, materials |-> r.materials]

RECURSIVE ForEachOperation(_, _, _, _, _)
ForEachOperation(n, sub, query, observations_, materials_) ==
    IF n = 0
    THEN [raised |-> "", requests |-> <<>>, observations |-> observations_,
          materials |-> materials_]
    ELSE NextOperation(ForEachOperation(n - 1, sub, query, observations_, materials_),
                       sub, query)

\* The lists after the loop over the fetched operations.
AfterOperations(each, operations_, log) ==
    CalendarLists(each.raised, each.observations, operations_, each.materials,
                  log \o each.requests)

TypedFetches(a, world, located, typed, lookup, observations_, operations_) ==
    IF IsNone(operations_)
    \* for o in operations: iterating None
    THEN CalendarLists("TypeError", observations_, None, <<>>,
                       <<lookup, Request("observations", typed, world.observations),
                         Request("operations", located, world.operations)>>)
    ELSE AfterOperations(ForEachOperation(Len(Val(operations_)), world.sub,
                                          DelKey(located, "activity_type"),
                                          observations_, <<>>),
                         operations_,
                         <<lookup, Request("observations", typed, world.observations),
                           Request("operations", located, world.operations)>>)

WithParcel(query, parcel_id) ==
    IF ~IsNone(parcel_id) THEN SetKey(query, "parcel", Val(parcel_id)) ELSE query

\* Lines 440-480: no operation id.  typed is params at the observations
\* fetch; the operations fetch adds the parcel.
TypedMode(a, world, lookup, typed) ==
    IF ~Truthy(make_get_request(world.activity_types))
    THEN CalendarLists("", Some(<<>>), Some(<<>>), <<>>, <<lookup>>)
    ELSE TypedFetches(a, world, WithParcel(typed, a.parcel_id), typed, lookup,
                      make_get_request(world.observations),
                      make_get_request(world.operations))

RemoteByType(a, world) ==
    IF IsNone(a.calendar_activity_type)
    THEN CalendarLists("", Some(<<>>), Some(<<>>), <<>>, <<>>)
    ELSE TypedMode(a, world,
                   Request("activity_types",
                           SetKey(BaseParams, "name", Val(a.calendar_activity_type)),
                           world.activity_types),
                   decode_dates_filters(SetKey(BaseParams, "activity_type", "type-1"),
                                        a.from_date, a.to_date))

AfterOperation(r, operations_, log) ==
    CalendarLists(r.raised, r.observations, Some(operations_), r.materials,
                  log \o r.requests)

\* Lines 482-515: an operation id was given.
ByIdMode(a, world, query, operations_, log) ==
    IF operations_ = <<>>
    THEN CalendarLists("", Some(<<>>), Some(<<>>), <<>>, log)
    ELSE IF IsNone(a.calendar_activity_type) /\ IsNone(make_get_request(world.activity_type))
    \* farm_activity_type_info["name"] on None
    THEN CalendarLists("TypeError", Some(<<>>), Some(operations_), <<>>, log)
    ELSE AfterOperation(get_farm_operation_data(world.sub,
                                                decode_dates_filters(query, a.from_date,
                                                                     a.to_date),
                                                Some(<<>>), <<>>),
                        operations_, log)

RemoteById(a, world) ==
    ByIdMode(a, world, DelKey(BaseParams, "activity_type"),
             IF IsNone(make_get_request(world.operation)) THEN <<>>
             ELSE <<Val(make_get_request(world.operation))>>,
             <<Request("operations/id", DelKey(BaseParams, "activity_type"),
                       world.operation)>>
             \o (IF world.operation.status = "ok" /\ IsNone(a.calendar_activity_type)
                 THEN <<Request("activity_types/id", DelKey(BaseParams, "activity_type"),
                                world.activity_type)>>
                 ELSE <<>>))

CalendarOutcome(lists, used, calendar_data, made, error_, at) ==
    [json_data |-> IF lists.raised = ""
                   THEN Some([observations |-> lists.observations,
                              farm_activities |-> lists.farm_activities,
                              materials |-> lists.materials])
                   ELSE None,
     data_used |-> used, requests |-> lists.requests, calendar_data |-> calendar_data,
     pdf |-> made, error |-> error_, failed_at |-> at, written |-> error_ = ""]

\* Lines 425-522 and 523-556: the lists of the remote mode or of the upload.
CalendarIngestion(a, gatekeeper, world) ==
    IF ~IsNone(a.data) THEN UploadedCalendar(Val(a.data))
    ELSE IF ~gatekeeper
    THEN CalendarLists("HTTPException-400-nodata", None, None, <<>>, <<>>)
    ELSE IF IsNone(a.operation_id) THEN RemoteByType(a, world)
    ELSE RemoteById(a, world)

\* Lines 563-566: the document is assembled and written.
CalendarAssembly(lists, used, calendar_data, made) ==
    IF made.raised # ""
    THEN CalendarOutcome(lists, used, calendar_data, NoCalendarPdf,
                         "HTTPException-400-processing", made.at)
    ELSE CalendarOutcome(lists, used, calendar_data, made.pdf, "", "")

CalendarValidation(lists, used, validated, env) ==
    IF validated.raised # ""
    THEN CalendarOutcome(lists, used, EmptyCalendar, NoCalendarPdf,
                         "HTTPException-400-processing", "validate")
    ELSE CalendarAssembly(lists, used, validated.calendar_data,
                          create_farm_calendar_pdf(validated.calendar_data, env))

CalendarProcessing(lists, used, env) ==
    IF lists.raised # ""
    THEN CalendarOutcome(lists, used, EmptyCalendar, NoCalendarPdf,
                         "HTTPException-400-processing", "ingest")
    ELSE CalendarValidation(lists, used,
                            FarmCalendarData(lists.observations, lists.farm_activities,
                                             lists.materials),
                            env)

\* The whole function: every exception, the HTTPException of the missing
\* upload and of the validation included, reaches the outer except and
\* becomes HTTPException 400 "Error processing farm calendar data".
process_farm_calendar_data(a, gatekeeper, world, env) ==
    CalendarProcessing(CalendarIngestion(a, gatekeeper, world), ~IsNone(a.data), env)

(***************************************************************************)
(* Specification SpecCalendar: one invocation of                           *)
(* process_farm_calendar_data (endpoint /compost-report/).                 *)
(*                                                                         *)
(* Uploaded graphs hold 1..MaxActs operations.  The measurements of an     *)
(* operation are groups of observations in the new shape (the              *)
(* observations themselves), in the legacy shape (one hasMember wrapper    *)
(* per group), mixed (a wrapper followed by observations), or in the new   *)
(* shape with a null hasMember on the first observation; the key           *)
(* hasMeasurement may also be absent.                                      *)
(***************************************************************************)
RawObservation(day, details) ==
    RawEntry(TRUE, CalendarItem("Observation", None, Some(day), <<>>, details))

Wrapper(members) == [RawEntry(FALSE, NoItem) EXCEPT !.hasMember = Some(Some(members))]

GroupLists ==
    LET g1 == <<RawObservation(3, "obs-a")>>
        g2 == <<RawObservation(1, "obs-b"), RawObservation(2, "obs-c")>>
    IN  {<<>>, <<g1>>, <<g1, g2>>, <<g2, g1>>, << <<>> >>}

NewShape(groups) == chain_from_iterable(groups)

LegacyShape(groups) == [i \in 1..Len(groups) |-> Wrapper(groups[i])]

MixedShape(groups) ==
    IF groups = <<>> THEN <<>>
    ELSE <<Wrapper(groups[1])>> \o chain_from_iterable(Tail(groups))

NullMemberShape(groups) ==
    LET flat == chain_from_iterable(groups)
    IN  IF flat = <<>> THEN <<>>
        ELSE <<[flat[1] EXCEPT !.hasMember = Some(None)]>> \o Tail(flat)

MeasurementLists ==
    UNION {{NewShape(g), LegacyShape(g), MixedShape(g), NullMemberShape(g)} :
              g \in GroupLists}

RawMaterial ==
    RawEntry(TRUE, CalendarItem("AddRawMaterialOperation", Some(2), None,
                                <<CompostMaterial("straw", Some(QuantityValue("kg", 3)))>>,
                                "raw"))

RemoteOperations ==
    {RawEntry(TRUE, [CalendarOperation(Some(1), Some("P1"), "op-a")
                        EXCEPT !.isOperatedOn = Some("pile-a"),
                               !.responsibleAgent = Some("agent-a")]),
     RawEntry(TRUE, [CalendarOperation(Some(2), None, "op-b")
                        EXCEPT !.isOperatedOn = Some("pile-b")])}

UploadOperations ==
    {[o EXCEPT !.hasMeasurement = m,
               !.hasNestedOperation = IF o.item.details = "op-a"
                                      THEN Some(<<RawMaterial>>) ELSE Some(<<>>)] :
        o \in RemoteOperations,
        m \in {None} \cup {Some(l) : l \in MeasurementLists}}

CalendarDocs ==
    {[shape |-> "notjson", graph |-> <<>>], [shape |-> "empty", graph |-> <<>>]}
    \cup {[shape |-> "graph", graph |-> g] :
             g \in UNION {[1..k -> UploadOperations] : k \in 1..MaxActs}}

CalendarArgs ==
    [report : {"farm_calendar_report"}, data : {None},
     operation_id : OptionOf({"op-1"}), calendar_activity_type : OptionOf({"Compost"}),
     from_date : OptionOf({1}), to_date : OptionOf({2}), parcel_id : OptionOf(ParcelIds),
     pdf_file_name : {"user/report-1"}]
    \cup [report : {"farm_calendar_report"}, data : {Some(d) : d \in CalendarDocs},
          operation_id : OptionOf({"op-1"}), calendar_activity_type : {None},
          from_date : {None}, to_date : {None}, parcel_id : {None},
          pdf_file_name : {"user/report-1"}]

OkResponse(body) == [status |-> "ok", body |-> body]

SubAnswers ==
    [observations : {ErrorResponse, OkResponse(<<>>),
                     OkResponse(<<RawObservation(2, "obs-sub")>>)},
     materials : {ErrorResponse, OkResponse(<<>>), OkResponse(<<RawMaterial>>)},
     irrigations : {ErrorResponse,
                    OkResponse(<<RawEntry(TRUE, CalendarItem("IrrigationOperation",
                                                             Some(1), None, <<>>,
                                                             "irrigation"))>>)},
     turning_operations : {OkResponse(<<>>),
                           OkResponse(<<RawEntry(TRUE, CalendarItem("CompostTurningOperation",
                                                                    Some(3), None, <<>>,
                                                                    "turning"))>>)}]

QuietSub ==
    [observations |-> ErrorResponse, materials |-> ErrorResponse,
     irrigations |-> ErrorResponse, turning_operations |-> ErrorResponse]

QuietWorld ==
    [activity_types |-> ErrorResponse, activity_type |-> ErrorResponse,
     observations |-> ErrorResponse, operations |-> ErrorResponse,
     operation |-> ErrorResponse, sub |-> QuietSub]

\* The remote answers the invocation can meet: only those its mode reads.
WorldsFor(a, gatekeeper) ==
    IF ~IsNone(a.data) \/ ~gatekeeper THEN {QuietWorld}
    ELSE IF ~IsNone(a.operation_id)
    THEN {[QuietWorld EXCEPT !.operation = o, !.activity_type = t, !.sub = sub] :
             o \in {ErrorResponse} \cup {OkResponse(e) : e \in RemoteOperations},
             t \in {ErrorResponse, OkResponse("Compost")},
             sub \in SubAnswers}
    ELSE IF IsNone(a.calendar_activity_type) THEN {QuietWorld}
    ELSE {[QuietWorld EXCEPT !.activity_types = t, !.observations = obs,
                             !.operations = ops, !.sub = sub] :
             t \in {ErrorResponse, OkResponse(<<>>), OkResponse(<<"type-1">>)},
             obs \in {ErrorResponse, OkResponse(<<>>),
                      OkResponse(<<RawObservation(1, "obs-list")>>)},
             ops \in {ErrorResponse}
                     \cup {OkResponse(l) : l \in SeqsUpTo(RemoteOperations, MaxActs)},
             sub \in SubAnswers}

\* The parcel lookup is made for a single operation only.
CalendarParcelEnvs(a, gatekeeper, world) ==
    IF \/ ~IsNone(a.data) /\ Len(Val(a.data).graph) = 1
       \/ IsNone(a.data) /\ ~IsNone(a.operation_id) /\ world.operation.status = "ok"
       \/ IsNone(a.data) /\ IsNone(a.operation_id) /\ Len(world.operations.body) = 1
    THEN {[gatekeeper |-> gatekeeper, found |-> TRUE, area |-> 20000, farmRef |-> ref,
           farmFound |-> ref = "id", geocodeOk |-> TRUE] : ref \in {"missing", "id"}}
    ELSE {NoParcelEnv}

InitCalendar ==
    /\ pc = "start"
    /\ settings \in [REPORTING_USING_GATEKEEPER : BOOLEAN]
    /\ args \in CalendarArgs
    /\ json_data = None
    /\ data_used = FALSE
    /\ params = {}
    /\ operations = None
    /\ pdf = NoCalendarPdf
    /\ error = ""
    /\ failed_at = ""
    /\ files = {}
    /\ observations = <<>>
    /\ materials = <<>>
    /\ requests = <<>>
    /\ parcel_env = NoParcelEnv
    /\ retrieved = None
    /\ figures = <<>>
    /\ tasks = <<>>

\* The state after the invocation whose outcome is o.
FinishCalendar(o, env) ==
    /\ json_data' = o.json_data
    /\ data_used' = o.data_used
    /\ requests' = o.requests
    /\ observations' = o.calendar_data.observations
    /\ operations' = Some(o.calendar_data.operations)
    /\ materials' = o.calendar_data.materials
    /\ pdf' = o.pdf
    /\ error' = o.error
    /\ failed_at' = o.failed_at
    /\ files' = IF o.written THEN files \cup {args.pdf_file_name} ELSE files
    /\ pc' = IF o.written THEN "done" ELSE "failed"
    /\ parcel_env' = env
    /\ UNCHANGED <<settings, args, params, retrieved, figures, tasks>>

ProcessFarmCalendarData ==
    /\ pc = "start"
    /\ args.report = "farm_calendar_report"
    /\ \E world \in WorldsFor(args, settings.REPORTING_USING_GATEKEEPER) :
       \E env \in CalendarParcelEnvs(args, settings.REPORTING_USING_GATEKEEPER, world) :
          FinishCalendar(process_farm_calendar_data(args,
                                                    settings.REPORTING_USING_GATEKEEPER,
                                                    world, env), env)

NextCalendar == ProcessFarmCalendarData

SpecCalendar == InitCalendar /\ [][NextCalendar]_vars

(***************************************************************************)
(* Properties of the data table (specification SpecDataTable).             *)
(***************************************************************************)
IsDataTable == args.report = "data_table"

\* Start time if present, else phenomenon time (an Optional).
EffectiveTimestamp(x) ==
    IF x.hasStartDatetime # None THEN x.hasStartDatetime ELSE x.phenomenonTime

Undated(x) == x.hasStartDatetime = None /\ x.phenomenonTime = None

Occurrences(seq, x) == Cardinality({i \in 1..Len(seq) : seq[i] = x})

DataTableRendered == pc = "done" /\ pdf.data_table # None

\* The day shown in the "Start - End" cell of a row.
RowDay(row) == row[1][1].day

(***************************************************************************)
(* C17: the merged sequence of a rendered data table is the observations   *)
(* concatenated with the materials, put in ascending order of effective    *)
(* timestamp (start time, else phenomenon time); every item of the two     *)
(* collections is in it exactly as often as in the two collections, and    *)
(* the rows follow that order.                                             *)
(***************************************************************************)
C17_MergedAscendingEachOnce ==
    (IsDataTable /\ DataTableRendered) =>
        LET t == Val(pdf.data_table)
            both == observations \o materials
        IN  /\ Len(t.items) = Len(both)
            /\ \A i \in 1..Len(both) :
                  Occurrences(t.items, both[i]) = Occurrences(both, both[i])
            /\ \A i, j \in 1..Len(t.items) :
                  i < j => Val(EffectiveTimestamp(t.items[i]))
                              <= Val(EffectiveTimestamp(t.items[j]))
            /\ \A i, j \in 1..Len(t.rows) : i < j => RowDay(t.rows[i]) <= RowDay(t.rows[j])
            /\ {r[6] : r \in Range(t.rows)} = {x.details : x \in Range(both)}

\* A rendered table whose order differs from the concatenation: a material
\* of day 2 (start 2, phenomenon time 4) after an observation of day 3.
C17_Witness ==
    /\ IsDataTable /\ DataTableRendered
    /\ Len(observations) = 1 /\ Len(materials) = 1
    /\ observations[1].phenomenonTime = Some(3)
    /\ materials[1].hasStartDatetime = Some(2)
    /\ Val(pdf.data_table).items = materials \o observations

(***************************************************************************)
(* C18: a merged item with neither hasStartDatetime nor phenomenonTime is  *)
(* never rendered as a row: the invocation fails (no document) or the      *)
(* document has no row of that item, also when it is the only item.        *)
(***************************************************************************)
C18_UndatedItemNeverRendered ==
    (IsDataTable /\ pc # "start") =>
        \A x \in Range(observations \o materials) :
            Undated(x) =>
                \/ pc = "failed" /\ files = {}
                \/ /\ pc = "done"
                   /\ pdf.data_table # None =>
                         \A r \in Range(Val(pdf.data_table).rows) : r[6] # x.details

\* The undated item is the only merged item: the sort compares nothing and
\* the invocation fails at the row.
C18_Witness ==
    /\ IsDataTable /\ pc = "failed" /\ failed_at = "data_table"
    /\ Len(observations \o materials) = 1
    /\ Undated((observations \o materials)[1])

(***************************************************************************)
(* C19: a raw-material record with n >= 1 line items, each with or without *)
(* a quantity, is rendered as exactly n rows: the k-th row shows the k-th  *)
(* item's type name (and its quantity when it has one), the n rows carry   *)
(* the same start-end pair, and each row has the six cells of the header.  *)
(* (Stated for a record that is the only material, every merged item being *)
(* dated.)                                                                 *)
(***************************************************************************)
RawRows == SelectSeq(Val(pdf.data_table).rows, LAMBDA r : r[6] = "raw")

C19_OneRowPerLineItem ==
    (/\ IsDataTable /\ pc # "start"
     /\ Len(materials) = 1
     /\ materials[1].type = "AddRawMaterialOperation"
     /\ Len(materials[1].hasCompostMaterial) >= 1
     /\ \A x \in Range(observations \o materials) : ~Undated(x)) =>
        LET lines == materials[1].hasCompostMaterial
        IN  /\ DataTableRendered
            /\ Len(RawRows) = Len(lines)
            /\ \A k \in 1..Len(lines) :
                  /\ Len(RawRows[k]) = Len(Val(pdf.data_table).header)
                  /\ Len(RawRows[k]) = 6
                  /\ RawRows[k][1] = RawRows[1][1]
                  /\ RawRows[k][5] = lines[k].typeName
                  /\ lines[k].quantityValue # None =>
                        RawRows[k][4] = <<Val(lines[k].quantityValue).numericValue,
                                          Val(lines[k].quantityValue).unit>>

(***************************************************************************)
(* Properties of the farm-calendar invocation (specification               *)
(* SpecCalendar).                                                          *)
(***************************************************************************)
IsCalendar == args.report = "farm_calendar_report"

\* An uploaded graph every operation of which has the key hasMeasurement.
UploadedGraph ==
    /\ IsCalendar /\ args.data # None
    /\ Val(args.data).shape = "graph"
    /\ \A x \in Range(Val(args.data).graph) : x.hasMeasurement # None

RECURSIVE Concat(_)
Concat(lists) == IF lists = <<>> THEN <<>> ELSE Head(lists) \o Concat(Tail(lists))

\* The hasMeasurement lists of the operations of the graph, one after the other.
FlattenedMeasurements ==
    LET graph == Val(args.data).graph
    IN  Concat([i \in 1..Len(graph) |-> Val(graph[i].hasMeasurement)])

\* A measurement the members of which can be taken: hasMember is a list.
HasMemberList(e) == e.hasMember # None /\ Val(e.hasMember) # None

\* The observations handed to the validation.
HandedObservations == Val(json_data).observations

(***************************************************************************)
(* C12: for an uploaded farm-calendar graph the legacy unwrap of hasMember *)
(* is attempted first; when it fails structurally on any measurement, the  *)
(* already-flattened hasMeasurement list is the observation collection,    *)
(* unchanged, and the failure does not make the ingestion fail.            *)
(***************************************************************************)
C12_UnwrapFailureKeepsFlattenedList ==
    (/\ pc # "start" /\ UploadedGraph
     /\ \E e \in Range(FlattenedMeasurements) : ~HasMemberList(e)) =>
        /\ failed_at # "ingest"
        /\ json_data # None
        /\ HandedObservations = Some(FlattenedMeasurements)

(***************************************************************************)
(* C13: a legacy-shape graph (every hasMeasurement entry wraps its         *)
(* observations in hasMember) yields the same observation collection, same *)
(* count and order, as the equivalent new-shape graph, whose               *)
(* hasMeasurement lists hold those observations directly.                  *)
(***************************************************************************)
LegacyGraph ==
    /\ UploadedGraph
    /\ \A e \in Range(FlattenedMeasurements) : HasMemberList(e)

\* The members of the wrappers of one operation, in order.
MembersOf(x) ==
    Concat([i \in 1..Len(Val(x.hasMeasurement)) |->
               Val(Val(Val(x.hasMeasurement)[i].hasMember))])

EquivalentNewShape ==
    LET graph == Val(args.data).graph
    IN  [shape |-> "graph",
         graph |-> [i \in 1..Len(graph) |->
                       [graph[i] EXCEPT !.hasMeasurement = Some(MembersOf(graph[i]))]]]

C13_LegacySameAsNewShape ==
    (pc # "start" /\ LegacyGraph) =>
        /\ json_data # None
        /\ HandedObservations = UploadedCalendar(EquivalentNewShape).observations
        /\ HandedObservations =
              Some(Concat([i \in 1..Len(Val(args.data).graph) |->
                              MembersOf(Val(args.data).graph[i])]))

\* A legacy graph with two wrappers of one and two observations.
C13_Witness ==
    /\ pc = "done" /\ LegacyGraph
    /\ Len(FlattenedMeasurements) = 2
    /\ Len(Val(HandedObservations)) = 3
    /\ Len(observations) = 3

\* The remote mode of the farm-calendar invocation.
CalendarRemote == IsCalendar /\ args.data = None /\ settings.REPORTING_USING_GATEKEEPER

Issued(url) == Cardinality({i \in 1..Len(requests) : requests[i].url = url})

(***************************************************************************)
(* C14: get_farm_operation_data always issues all four sub-resource        *)
(* fetches, whatever the outcome of the others, and raises no error: the   *)
(* invocation has issued each of the four as often as the first, and has   *)
(* not stopped in the ingestion after issuing one.                         *)
(***************************************************************************)
C14_AllFourFetchesIssued ==
    (CalendarRemote /\ pc # "start") =>
        /\ \A url \in {"operations/id/materials", "operations/id/irrigations",
                       "operations/id/turning_operations"} :
              Issued(url) = Issued("operations/id/observations")
        /\ Issued("operations/id/observations") > 0 => failed_at # "ingest"

(***************************************************************************)
(* C15: in the remote mode, when the activity-type lookup, the             *)
(* observations fetch or the compost-operations fetch fails, the           *)
(* collection is taken as empty and the invocation goes on to assemble the *)
(* document: it stops neither in the ingestion nor in the validation, and  *)
(* with no operations fetched the document is written.                     *)
(***************************************************************************)
C15_FailedFetchIsEmptyCollection ==
    (CalendarRemote /\ pc # "start") =>
        \A i \in 1..Len(requests) :
            (/\ requests[i].failed
             /\ requests[i].url \in {"activity_types", "activity_types/id",
                                     "observations", "operations", "operations/id"}) =>
                /\ failed_at \notin {"ingest", "validate"}
                /\ requests[i].url \in {"activity_types", "operations", "operations/id"}
                      => pc = "done"

(***************************************************************************)
(* C16: the filtered remote fetch of the primary collection (the compost   *)
(* operations) carries 'parcel' exactly when a parcel id was supplied,     *)
(* 'fromDate' exactly when a from-date was supplied and 'toDate' exactly   *)
(* when a to-date was supplied, each with the supplied value (dates as     *)
(* YYYY-MM-DD), and the keys set before (format, activity_type) are left   *)
(* as they were.                                                           *)
(***************************************************************************)
HasKey(query, k) == \E q \in query : q[1] = k

C11_IngestionModePriority ==
    (IsCalendar /\ pc # "start" /\ settings.REPORTING_USING_GATEKEEPER) =>
        /\ args.operation_id # None => (~data_used /\ Issued("operations/id") = 1)
        /\ (args.operation_id = None /\ args.data # None) =>
              (data_used /\ Issued("operations") = 0 /\ Issued("operations/id") = 0)
        /\ (args.operation_id = None /\ args.data = None) =>
              (~data_used /\ Issued("operations/id") = 0)

(***************************************************************************)
(* Properties of the parcel context, of the artifact and of the tables     *)
(* (specification Spec).                                                   *)
(***************************************************************************)
\* The fetch of the parcel was made and returned nothing.
ParcelLookupFailed == parcel_env.gatekeeper /\ ~parcel_env.found

\* Ingestion and parsing went through and every operation has a start time
\* and the reporting period has no to-date without a from-date: nothing but
\* the parcel context can make the assembly differ.
ParsedWithStartTimes ==
    /\ pc # "start"
    /\ failed_at \notin {"ingest", "parse"}
    /\ ~IsNone(operations)
    /\ \A i \in 1..NumOps : ~IsNone(Val(operations)[i].hasStartDatetime)
    /\ IsNone(args.to_date) \/ ~IsNone(args.from_date)

\* The parcel context written in the heading of the document.
HeadingParcel == IF IsIrrigFertPest THEN Val(pdf.parcel) ELSE Val(pdf.parcel).address

\* C21: when a parcel id filter is supplied and the parcel lookup fails, the
\* report is assembled with the parcel context address "" and area 0 and
\* the invocation finishes by writing the artifact, whatever the size of
\* the collection (0, 1, 2 and more operations).
C21_ParcelLookupFailureStillFinishes ==
    (IsOperationsReport /\ ~IsNone(args.parcel_id) /\ ParcelLookupFailed
        /\ ParsedWithStartTimes)
    => /\ pc = "done"
       /\ args.pdf_file_name \in files
       /\ ~IsNone(pdf.parcel)
       /\ HeadingParcel = DefaultParcel

\* C22: an invocation that ends in a validation or assembly failure leaves
\* no artifact file for its report id, at any time: the artifact exists only
\* after ingestion, parsing and assembly all completed without error, and a
\* failing invocation leaves the set of stored artifacts as it was.
C22_NoArtifactUnlessCompleted ==
    /\ [](pc = "failed" => args.pdf_file_name \notin files)
    /\ [](args.pdf_file_name \in files => pc = "done" /\ error = "" /\ failed_at = "")
    /\ [][pc' = "failed" => files' = files]_vars

C22_Witness ==
    /\ pc = "failed"
    /\ failed_at = "table"
    /\ error = "HTTPException-400-assembly"
    /\ NumOps = 2
    /\ args.pdf_file_name \notin files

(***************************************************************************)
(* api/api_v1/endpoints/report.py: retrieve_generated_pdf, and the          *)
(* specification SpecRetrieval: one invocation of the irrigation endpoint's *)
(* background task and any number of retrievals, before, between and after  *)
(* its steps.  The artifact of a report is the file                         *)
(* PDF_DIRECTORY + user_id + "/" + report_id + ".pdf"; the model leaves     *)
(* the directory and the extension out on both sides.                       *)
(***************************************************************************)
Users == {"user", "other"}

ReportIds == {"report-1"}

\* Line 43.
file_path(user_id, report_id) == user_id \o "/" \o report_id

\* retrieve_generated_pdf that never finds the file.
retrieve_generated_pdf_NeverReady(user_id, report_id, stored) ==
    [user_id |-> user_id, report_id |-> report_id, status |-> 202, path |-> None]

\* Lines 43-53: stored is the set of the files that exist.
retrieve_generated_pdf(user_id, report_id, stored) ==
    IF file_path(user_id, report_id) \notin stored
    THEN [user_id |-> user_id, report_id |-> report_id, status |-> 202, path |-> None]
    ELSE [user_id |-> user_id, report_id |-> report_id, status |-> 200,
          path |-> Some(file_path(user_id, report_id))]

InitRetrieval == Init /\ args.report = "irrigation_report"

RetrieveGeneratedPdf ==
    /\ \E user_id \in Users, report_id \in ReportIds :
          retrieved' = Some(retrieve_generated_pdf(user_id, report_id, files))
    /\ UNCHANGED <<pc, settings, args, json_data, data_used, params, operations, pdf,
                   error, failed_at, files, observations, materials, requests,
                   parcel_env, figures, tasks>>

NextRetrieval ==
    \/ ProcessIrrigationData
    \/ RetrieveGeneratedPdf

SpecRetrieval == InitRetrieval /\ [][NextRetrieval]_vars

\* The answer r is the one the stored files call for.
AnswerMatches(r, stored) ==
    /\ r.status \in {200, 202}
    /\ r.status = 202 <=> file_path(r.user_id, r.report_id) \notin stored
    /\ r.status = 200 <=> file_path(r.user_id, r.report_id) \in stored
    /\ r.status = 200 => r.path = Some(file_path(r.user_id, r.report_id))

\* The answer r is for the report of the invocation.
OwnReport(r) == file_path(r.user_id, r.report_id) = args.pdf_file_name

\* C23: a retrieval answers 202 exactly when the artifact file of the user
\* and report id is absent and returns the file (200) exactly when it is
\* present; a written artifact stays, so every retrieval after a successful
\* invocation returns it; a failed invocation stays failed and every
\* retrieval of its report keeps answering 202.
C23_RetrievalFollowsArtifact ==
    [][/\ retrieved' # retrieved => AnswerMatches(Val(retrieved'), files)
       /\ files \subseteq files'
       /\ (pc = "done" /\ retrieved' # retrieved /\ OwnReport(Val(retrieved')))
             => Val(retrieved').status = 200
       /\ pc = "failed" => pc' = "failed"
       /\ (pc = "failed" /\ retrieved' # retrieved /\ OwnReport(Val(retrieved')))
             => Val(retrieved').status = 202]_vars

C23_Witness ==
    /\ pc = "failed"
    /\ ~IsNone(retrieved)
    /\ OwnReport(Val(retrieved))
    /\ Val(retrieved).status = 202

(***************************************************************************)
(* Properties of the tables (specification Spec).                          *)
(***************************************************************************)
IsAnimalReport == args.report = "animals_report"

\* The parsed collection of the invocation has n records or more.
ParsedAtLeast(n) == pc # "start" /\ ~IsNone(operations) /\ NumOps >= n

\* Every row of the written table has the cells of the header, in its order.
RowsFollowHeader ==
    \A i \in 1..Len(Val(pdf.table).rows) :
       /\ Len(Val(pdf.table).rows[i]) = Len(Val(pdf.table).header)
       /\ \A k \in 1..Len(Val(pdf.table).header) :
             Val(pdf.table).rows[i][k].col = Val(pdf.table).header[k]

\* C24: an animal report whose parsed collection has two or more records
\* emits one table row per record, the rows ascending by dateCreated, and
\* the cells of every row in the order of the header (date, name,
\* description, parcel, identifier, species, sex, birthdate, invalidated,
\* group): ten cells per row.
C24_AnimalTableRowPerRecord ==
    (IsAnimalReport /\ ParsedAtLeast(2))
    => /\ pc = "done"
       /\ ~IsNone(pdf.table)
       /\ Val(pdf.table).header = AnimalHeader
       /\ Len(Val(pdf.table).header) = 10
       /\ Len(Val(pdf.table).rows) = NumOps
       /\ \A i \in 1..NumOps :
             Val(pdf.table).rows[i][1].val.day = Val(operations)[i].dateCreated
       /\ \A i \in 1..(NumOps - 1) :
             Val(pdf.table).rows[i][1].val.day <= Val(pdf.table).rows[i + 1][1].val.day
       /\ RowsFollowHeader

(***************************************************************************)
(* Specification SpecConcurrent: two background tasks (two report ids) of  *)
(* process_irrigation_fertilization_data that both reached the graphs of   *)
(* lines 325-342 of irrig_fert_pest_report.py, run by the thread pool side *)
(* by side.  The steps of a task are the pyplot calls of                   *)
(* generate_total_volume_graph and generate_amount_per_hectare, which act  *)
(* on the current figure of the process (the last of figures), and the     *)
(* final aggregation and pdf.output.  A figure is the list of the series   *)
(* plotted on it; a saved image is the list of the series it shows.        *)
(***************************************************************************)
MaxChartDose == 2

Tasks == {1, 2}

\* plt.figure(): a new figure, which becomes the current one.
plt_figure(figs) == Append(figs, <<>>)

\* plt.plot(...) and the calls up to tight_layout draw on the current
\* figure; without any figure gcf() makes one.
plt_plot(figs, series) ==
    IF figs = <<>> THEN <<<<series>>>>
    ELSE [figs EXCEPT ![Len(figs)] = Append(figs[Len(figs)], series)]

\* plt.savefig(image_mem): the current figure is saved (gcf() makes an empty
\* one when there is none).
plt_savefig(figs) ==
    IF figs = <<>> THEN [figures |-> <<<<>>>>, image |-> <<>>]
    ELSE [figures |-> figs, image |-> figs[Len(figs)]]

\* plt.close(): the current figure is closed; the one before it becomes
\* current.
plt_close(figs) == IF figs = <<>> THEN figs ELSE SubSeq(figs, 1, Len(figs) - 1)

ChartLists ==
    {<<model_validate(RawRecord(TRUE, Some(1), None, Some(QuantityValue("m3", v)), None), "IrrigationOperation"), model_validate(RawRecord(TRUE, Some(2), None, Some(QuantityValue("m3", w)), None), "IrrigationOperation")>> : v \in 1..MaxChartDose, w \in 1..MaxChartDose}

\* Lines 325-326: the frame of the task with its "Total Volume" column.
TaskFrame(task) ==
    generate_total_volume_graph(prepare_df_for_calculations(task.operations),
                                task.area_parcel)

\* The series a task plots in its first and in its second graph.
TaskSeries(task, n) ==
    IF n = 1 THEN TaskFrame(task).image
    ELSE generate_amount_per_hectare(TaskFrame(task).df)

InitConcurrent ==
    /\ pc = "start"
    /\ settings = [REPORTING_USING_GATEKEEPER |-> TRUE]
    /\ args = [report |-> "concurrent"]
    /\ json_data = None
    /\ data_used = FALSE
    /\ params = {}
    /\ operations = None
    /\ pdf = NoPdf
    /\ error = ""
    /\ failed_at = ""
    /\ files = {}
    /\ observations = <<>>
    /\ materials = <<>>
    /\ requests = <<>>
    /\ parcel_env = NoParcelEnv
    /\ retrieved = None
    /\ figures = <<>>
    /\ \E lists \in [Tasks -> ChartLists] :
          tasks = [t \in Tasks |->
                      [pc |-> "figure", graph |-> 1, operations |-> lists[t],
                       area_parcel |-> t,
                       pdf_file_name |-> IF t = 1 THEN "user/report-1" ELSE "user/report-2",
                       graphs |-> <<>>, aggregates |-> None]]

TaskUnchanged ==
    UNCHANGED <<pc, settings, args, json_data, data_used, params, operations, pdf,
                error, failed_at, observations, materials, requests, parcel_env,
                retrieved>>

\* generate_aggregation_data.py lines 64 and 94.
PltFigure(t) ==
    /\ tasks[t].pc = "figure"
    /\ figures' = plt_figure(figures)
    /\ tasks' = [tasks EXCEPT ![t].pc = "plot"]
    /\ UNCHANGED files
    /\ TaskUnchanged

\* Lines 65-85 and 95-115.
PltPlot(t) ==
    /\ tasks[t].pc = "plot"
    /\ figures' = plt_plot(figures, TaskSeries(tasks[t], tasks[t].graph))
    /\ tasks' = [tasks EXCEPT ![t].pc = "savefig"]
    /\ UNCHANGED files
    /\ TaskUnchanged

\* Lines 86-87 and 116-117.
PltSavefig(t) ==
    /\ tasks[t].pc = "savefig"
    /\ figures' = plt_savefig(figures).figures
    /\ tasks' = [tasks EXCEPT ![t].pc = "close",
                              ![t].graphs = Append(@, plt_savefig(figures).image)]
    /\ UNCHANGED files
    /\ TaskUnchanged

\* Lines 88-89 and 118-119: after the first graph comes the second, after
\* the second the aggregates.
PltClose(t) ==
    /\ tasks[t].pc = "close"
    /\ figures' = plt_close(figures)
    /\ tasks' = [tasks EXCEPT ![t].pc = IF tasks[t].graph = 1 THEN "figure" ELSE "output",
                              ![t].graph = IF tasks[t].graph = 1 THEN 2 ELSE 2]
    /\ UNCHANGED files
    /\ TaskUnchanged

\* irrig_fert_pest_report.py lines 337-362 and 462-464: the images and the
\* aggregate table go into the document and the document is written.
TaskOutput(t) ==
    /\ tasks[t].pc = "output"
    /\ tasks' = [tasks EXCEPT ![t].pc = "done",
                              ![t].aggregates =
                                  Some(generate_aggregation_table_data(TaskFrame(tasks[t]).df))]
    /\ files' = files \cup {tasks[t].pdf_file_name}
    /\ UNCHANGED figures
    /\ TaskUnchanged

NextConcurrent ==
    \E t \in Tasks :
       \/ PltFigure(t)
       \/ PltPlot(t)
       \/ PltSavefig(t)
       \/ PltClose(t)
       \/ TaskOutput(t)

SpecConcurrent == InitConcurrent /\ [][NextConcurrent]_vars

\* What one task saves when it draws alone.
SavedAlone(series) == plt_savefig(plt_plot(plt_figure(<<>>), series)).image

\* C25: two report invocations that run side by side do not interfere: the
\* chart series and the aggregates of each artifact are computed from the
\* records and filters of that invocation alone, under every interleaving of
\* their steps, the drawing steps through the current figure of the
\* plotting library included.
C25_ConcurrentInvocationsDoNotInterfere ==
    \A t \in Tasks :
       tasks[t].pc = "done"
       => /\ tasks[t].graphs = <<SavedAlone(TaskSeries(tasks[t], 1)),
                                 SavedAlone(TaskSeries(tasks[t], 2))>>
          /\ tasks[t].aggregates =
                Some(generate_aggregation_table_data(TaskFrame(tasks[t]).df))
          /\ tasks[t].pdf_file_name \in files

(***************************************************************************)
(* Property of the dose aggregation on its own (specification SpecSummary). *)
(***************************************************************************)
IsAggregation == args.report = "aggregation"

\* C26: the dose aggregation (prepare_df_for_calculations, then the volume
\* computation, then generate_aggregation_table_data) called on an empty
\* collection of operations does not crash: it returns a defined result.
C26_AggregationOfEmptyCollectionIsDefined ==
    (IsAggregation /\ pc # "start" /\ args.operations = <<>>)
    => /\ pc = "done"
       /\ error = ""
       /\ ~IsNone(pdf.aggregates)

(***************************************************************************)
(* Properties of the Multiple-mode table of the operation reports          *)
(* (specification Spec).                                                   *)
(***************************************************************************)
\* The three per-row parcel columns are in the header.
HeaderHasParcelColumns ==
    \E k \in 1..(Len(Val(pdf.table).header) - 2) :
        SubSeq(Val(pdf.table).header, k, k + 2)
            = <<"Parcel", "Parcel Identifier", "Farm">>

\* No parcel column is in the header.
HeaderHasNoParcelColumn ==
    \A k \in 1..Len(Val(pdf.table).header) :
        Val(pdf.table).header[k] \notin {"Parcel", "Parcel Identifier", "Farm"}

\* Two or more operations reached the table and neither the sort nor a
\* remote parcel lookup can fail: what is left is the table itself.
TableReached ==
    /\ IsOperationsReport
    /\ ParsedAtLeast(2)
    /\ ParsedWithStartTimes
    /\ get_parcel_info(parcel_env).raised = ""

\* C27: in the Multiple-mode table of an irrigation/fertilization/pest
\* report the parcel, parcel-identifier and farm columns are present exactly
\* when no parcel was resolved for the whole report, every row has as many
\* cells as the header, and a row whose operation has no parcel reference
\* shows empty parcel cells without failing the invocation.
C27_PerRowParcelColumns ==
    TableReached
    => /\ pc = "done"
       /\ ~IsNone(pdf.table)
       /\ IsNone(args.parcel_id) => HeaderHasParcelColumns
       /\ ~IsNone(args.parcel_id) => HeaderHasNoParcelColumn
       /\ Len(Val(pdf.table).rows) = NumOps
       /\ RowsFollowHeader
       /\ \A i \in 1..NumOps :
             (IsNone(args.parcel_id) /\ IsNone(Val(operations)[i].operatedOn))
             => Val(pdf.table).rows[i][3].val = ""

(***************************************************************************)
(* Properties of the uploaded farm-calendar graph and of its operations    *)
(* table (specification SpecCalendar).                                     *)
(***************************************************************************)
\* The hasNestedOperation lists of the operations of the graph, one after
\* the other.
FlattenedNestedOperations ==
    LET graph == Val(args.data).graph
    IN  Concat([i \in 1..Len(graph) |-> Val(graph[i].hasNestedOperation)])

\* The materials handed to the validation.
HandedMaterials == Val(json_data).materials

\* C28: for an uploaded farm-calendar graph the material collection handed
\* to the parser is the concatenation of the hasNestedOperation lists of all
\* graph items, whether or not any item has measurements: the nested
\* operations are not dropped when the flattened hasMeasurement list is
\* empty.
C28_NestedOperationsKeptWithoutMeasurements ==
    (pc # "start" /\ UploadedGraph) =>
        /\ json_data # None
        /\ HandedMaterials = FlattenedNestedOperations

\* The operations table was written for two or more operations.
OperationsTableWritten ==
    /\ IsCalendar
    /\ pc = "done"
    /\ NumOps >= 2
    /\ ~IsNone(pdf.operations)

\* The operations of the invocation, ascending by start time.
SortedOperations ==
    SortByKey(Val(operations),
              [i \in 1..NumOps |-> Val(Val(operations)[i].hasStartDatetime)])

\* C29: in the farm-calendar operations table (two or more compost
\* operations) every row shows the values of its own operation in all of
\* its cells: the details, start, agent, compost-pile and responsible-agent
\* cells of the k-th row are those of the k-th operation in sorted order.
C29_RowShowsItsOwnOperation ==
    OperationsTableWritten
    => /\ Len(Val(pdf.operations)) = NumOps
       /\ \A k \in 1..NumOps :
             /\ Val(pdf.operations)[k][1] = SortedOperations[k].details
             /\ Val(pdf.operations)[k][2].day = Val(SortedOperations[k].hasStartDatetime)
             /\ Val(pdf.operations)[k][4] = SortedOperations[k].responsibleAgent
             /\ Val(pdf.operations)[k][5] = CompostPileCell(SortedOperations[k])
             /\ Val(pdf.operations)[k][6] = ResponsibleAgentCell(SortedOperations[k])

(***************************************************************************)
(* Property of the reporting period of the irrigation report               *)
(* (specification Spec).                                                   *)
(***************************************************************************)
IsIrrigationReport == args.report = "irrigation_report"

\* Ingestion and parsing went through: the assembler was called.
AssemblerCalled == pc # "start" /\ failed_at \notin {"ingest", "parse"}

\* C30: in the irrigation report wired to the irrigation endpoint the
\* Reporting Period line shows the supplied from-date followed by the
\* supplied to-date (an empty to-part when no to-date is supplied), and
\* every combination of present and absent from-date and to-date, a to-date
\* with no from-date included, is handled without failing the invocation.
C30_ReportingPeriodShowsSuppliedDates ==
    (IsIrrigationReport /\ AssemblerCalled)
    => /\ failed_at # "period"
       /\ pc = "done" =>
             /\ ~IsNone(args.from_date) =>
                   pdf.period[1] = strftime(Val(args.from_date), "%Y-%m-%d")
             /\ pdf.period[2] = IF IsNone(args.to_date) THEN EmptyText
                                ELSE strftime(Val(args.to_date), "%Y-%m-%d")

====
